---- MODULE Spec2Model ----
(***************************************************************************)
(* EcoDietCalc: the scoring model (planner/calculations.rs), the candidate *)
(* ranker and greedy planner (planner/ranking.rs), the catalog state       *)
(* (state/manager.rs) and the tuner's evaluation (tuner/evaluation.rs).    *)
(*                                                                         *)
(* Numbers.  The program computes in f64.  Calories, budgets and the       *)
(* counters are whole numbers here (f64 is exact on them); every other     *)
(* quantity (nutrients, multipliers, scores) is a fixed-point number with  *)
(* SCALE units per 1.0, each product and quotient rounded down as soon as  *)
(* it is formed, in the order the source forms it.                         *)
(***************************************************************************)
EXTENDS Integers, Sequences, FiniteSets, TLC

VARIABLES
    foods,        \* FoodStateManager.foods: lowercase name -> Food
    order,        \* iteration order of the foods HashMap (a sequence of keys)
    cravings,     \* the preference list handed to the planner
    config,       \* SpConfig
    pc,           \* "idle", "plan" (inside generate_plan's loop), "done"; "tuner",
                  \* "eval" (inside evaluate_budget); "pareto", "pareto_done"
    budget,       \* remaining_calories argument of the running generate_plan
    remaining,    \* generate_plan's local `remaining`
    iter,         \* iterations of generate_plan's for loop started so far
    plan,         \* generate_plan's local `plan` (the returned Vec)
    stop,         \* which break (or the loop's end) ended generate_plan
    foods0,       \* the catalog as it was when generate_plan was called
    last,         \* result of the last read-only call (choose_next_bite, calculate_sp, ...)
    tfoods,       \* tuner: the manager evaluate_budget builds from its copy of the catalog
    torder,       \* tuner: iteration order of that manager's HashMap
    tknobs,       \* tuner: the TunerKnobs of the running evaluate_budget
    results,      \* tuner: a list of EvaluationResult
    frontier,     \* tuner: result of the last pareto_frontier call
    rt,           \* tuner: run_tuner's locals
    hc,           \* tuner: hill_climb's locals
    earlier       \* tuner: arguments and result of an earlier evaluate_budget call

vars == <<foods, order, cravings, config, pc, budget, remaining, iter, plan, stop,
          foods0, last, tfoods, torder, tknobs, results, frontier, rt, hc,
          earlier>>

-----------------------------------------------------------------------------
(* Fixed-point arithmetic *)

SCALE == 1000
POW_SCALE == 1000000

FMul(a, b) == (a * b) \div SCALE
FDiv(a, b) == (a * SCALE) \div b

Min2(a, b) == IF a <= b THEN a ELSE b
Max2(a, b) == IF a >= b THEN a ELSE b

\* the sum of a sequence of numbers
SumSeq(f) ==
    LET s[i \in 0..Len(f)] == IF i = 0 THEN 0 ELSE s[i - 1] + f[i]
    IN  s[Len(f)]

RECURSIVE SetToSeq(_)
SetToSeq(S) ==
    IF S = {} THEN <<>>
    ELSE LET x == CHOOSE y \in S : TRUE IN <<x>> \o SetToSeq(S \ {x})

SetMax(S) == CHOOSE x \in S : \A y \in S : y <= x

\* Iterator::collect into a Vec: every element is computed once, here
collect(seq) == SelectSeq(seq, LAMBDA x : TRUE)

-----------------------------------------------------------------------------
(* planner/constants.rs *)

BASE_SKILL_POINTS == 12000
VARIETY_CAL_THRESHOLD == 2000
VARIETY_MULT_MAX == 1550
BALANCE_MULT_MIN == 500
BALANCE_MULT_MAX == 2000
CRAVING_MULT_PER_MATCH == 100
DEFAULT_SERVER_MULT == 1000
DEFAULT_DINNER_PARTY_MULT == 1000
CAL_FLOOR == 395
CAL_PENALTY_GAMMA == 2479
SOFT_BIAS_GAMMA == 3606
TIE_EPSILON == 449
TIE_ALPHA == 977
TIE_BETA == 76
MAX_ITERATIONS == 100
F64_MAX == 2000000000

tastiness_multiplier(rating) ==
    CASE rating = -3 -> 700
      [] rating = -2 -> 800
      [] rating = -1 -> 900
      [] rating = 0  -> 1000
      [] rating = 1  -> 1100
      [] rating = 2  -> 1200
      [] rating = 3  -> 1300
      [] rating = 99 -> 1000
      [] OTHER -> 0

-----------------------------------------------------------------------------
(* models/food.rs: names and their case-insensitive key *)

UpperChars == <<"A","B","C","D","E","F","G","H","I","J","K","L","M",
                "N","O","P","Q","R","S","T","U","V","W","X","Y","Z">>
LowerChars == <<"a","b","c","d","e","f","g","h","i","j","k","l","m",
                "n","o","p","q","r","s","t","u","v","w","x","y","z">>

\* char::to_lowercase on the ASCII letters: upper-case letter -> its lower-case letter
LowerOf == [c \in {UpperChars[i] : i \in DOMAIN UpperChars} |->
               LowerChars[CHOOSE i \in DOMAIN UpperChars : UpperChars[i] = c]]

to_lowercase_char(c) == IF c \in DOMAIN LowerOf THEN LowerOf[c] ELSE c

to_lowercase(s) == [i \in DOMAIN s |-> to_lowercase_char(s[i])]

key(food) == to_lowercase(food.name)

\* impl PartialEq for Food
FoodEq(a, b) == to_lowercase(a.name) = to_lowercase(b.name)

-----------------------------------------------------------------------------
(* planner/calculations.rs: the scoring model.  A stomach is the          *)
(* HashMap<&Food, u32>: a sequence of entries [food, qty], one per key.    *)

StomachIndex(stomach, food) == {i \in DOMAIN stomach : FoodEq(stomach[i].food, food)}

\* stomach.get(&food).copied().unwrap_or(0)
StomachGet(stomach, food) ==
    LET at == StomachIndex(stomach, food)
    IN  IF at = {} THEN 0 ELSE stomach[CHOOSE i \in at : TRUE].qty

\* HashMap::insert on the stomach: an equal key keeps the stored key
StomachInsert(stomach, food, qty) ==
    LET at == StomachIndex(stomach, food)
    IN  IF at = {} THEN Append(stomach, [food |-> food, qty |-> qty])
        ELSE [stomach EXCEPT ![CHOOSE i \in at : TRUE].qty = qty]

\* the stomach with one more unit of food
StomachAddOne(stomach, food) ==
    StomachInsert(stomach, food, StomachGet(stomach, food) + 1)

NutrientDensityDefault == [carbs |-> 0, protein |-> 0, fats |-> 0, vitamins |-> 0]

NutrientDensity_sum(d) == d.carbs + d.protein + d.fats + d.vitamins

\* variant: the smallest value, a zero included
NutrientDensity_min_of_all(d) ==
    CHOOSE v \in {d.carbs, d.protein, d.fats, d.vitamins} :
        \A w \in {d.carbs, d.protein, d.fats, d.vitamins} : v <= w

NutrientDensity_min_nonzero(d) ==
    LET pos == {v \in {d.carbs, d.protein, d.fats, d.vitamins} : v > 0}
    IN  IF pos = {} THEN F64_MAX ELSE CHOOSE v \in pos : \A w \in pos : v <= w

NutrientDensity_max(d) == SetMax({0, d.carbs, d.protein, d.fats, d.vitamins})

total_cal_of(stomach) ==
    SumSeq([k \in DOMAIN stomach |-> stomach[k].food.calories * stomach[k].qty])

sum_all_weighted_nutrients(stomach) ==
    LET total_cal == total_cal_of(stomach)
        weight == collect([k \in DOMAIN stomach |->
                      (stomach[k].food.calories * stomach[k].qty * SCALE) \div total_cal])
    IN  IF total_cal = 0
        THEN [density |-> NutrientDensityDefault, total_cal |-> 0]
        ELSE [density |->
                [carbs    |-> SumSeq([k \in DOMAIN stomach |-> FMul(stomach[k].food.carbs, weight[k])]),
                 protein  |-> SumSeq([k \in DOMAIN stomach |-> FMul(stomach[k].food.protein, weight[k])]),
                 fats     |-> SumSeq([k \in DOMAIN stomach |-> FMul(stomach[k].food.fats, weight[k])]),
                 vitamins |-> SumSeq([k \in DOMAIN stomach |-> FMul(stomach[k].food.vitamins, weight[k])])],
              total_cal |-> total_cal]

calculate_balance_mult(density) ==
    LET max_val == NutrientDensity_max(density)
        min_val == NutrientDensity_min_nonzero(density)
    IN  IF max_val = 0 THEN SCALE
        ELSE IF min_val = F64_MAX THEN BALANCE_MULT_MIN
        ELSE BALANCE_MULT_MIN
               + FMul(FDiv(min_val, max_val), BALANCE_MULT_MAX - BALANCE_MULT_MIN)

\* 0.5^(k/20) for k = 0..19, in units of 1/POW_SCALE
HalfPowTable == <<1000000, 965936, 933033, 901250, 870551, 840896, 812252,
                  784584, 757858, 732043, 707107, 683020, 659754, 637280,
                  615572, 594604, 574349, 554785, 535887, 517632>>

RECURSIVE Halve(_, _)
Halve(x, n) == IF n = 0 THEN x ELSE Halve(x \div 2, n - 1)

\* variant: the power falls by the same amount with every item
half_powf_linear(count) == Max2(0, POW_SCALE - count * 25000)

\* 0.5_f64.powf(count / 20.0)
half_powf(count) == Halve(HalfPowTable[(count % 20) + 1], count \div 20)

calculate_variety_mult(variety_count) ==
    LET bonus_range == VARIETY_MULT_MAX - SCALE
    IN  SCALE + (bonus_range * (POW_SCALE - half_powf(variety_count))) \div POW_SCALE

calculate_taste_mult(stomach) ==
    LET total_cal == total_cal_of(stomach)
        weighted_taste ==
            SumSeq([k \in DOMAIN stomach |->
                     (stomach[k].food.calories * stomach[k].qty)
                       * tastiness_multiplier(stomach[k].food.tastiness)])
    IN  IF total_cal = 0 THEN SCALE ELSE weighted_taste \div total_cal

\* variant: an item qualifies while it is below the threshold
is_variety_qualifying_below(calories_per_unit, quantity) ==
    calories_per_unit * quantity < VARIETY_CAL_THRESHOLD

is_variety_qualifying(calories_per_unit, quantity) ==
    calories_per_unit * quantity >= VARIETY_CAL_THRESHOLD

count_variety_qualifying(stomach) ==
    Cardinality({k \in DOMAIN stomach :
                    is_variety_qualifying(stomach[k].food.calories, stomach[k].qty)})

\* cravings.iter().map(|c| c.to_lowercase()).collect::<HashSet<_>>()
craving_set_of(cr) == {to_lowercase(cr[i]) : i \in DOMAIN cr}

calculate_craving_mult(stomach, cr) ==
    LET matches == Cardinality({k \in DOMAIN stomach :
                       to_lowercase(stomach[k].food.name) \in craving_set_of(cr)})
    IN  SCALE + matches * CRAVING_MULT_PER_MATCH

SpConfigDefault ==
    [server_mult |-> DEFAULT_SERVER_MULT, dinner_party_mult |-> DEFAULT_DINNER_PARTY_MULT]

\* variant: the base is added after the server multiplier is applied
calculate_sp_base_after_server(stomach, cr, cfg) ==
    LET density      == sum_all_weighted_nutrients(stomach).density
        nutrition_sp ==
            FMul(FMul(FMul(FMul(FMul(NutrientDensity_sum(density),
                 calculate_balance_mult(density)),
                 calculate_variety_mult(count_variety_qualifying(stomach))),
                 calculate_taste_mult(stomach)),
                 calculate_craving_mult(stomach, cr)), cfg.dinner_party_mult)
    IN  FMul(nutrition_sp, cfg.server_mult) + BASE_SKILL_POINTS

calculate_sp(stomach, cr, cfg) ==
    LET density      == sum_all_weighted_nutrients(stomach).density
        density_sum  == NutrientDensity_sum(density)
        balance_mult == calculate_balance_mult(density)
        variety_mult == calculate_variety_mult(count_variety_qualifying(stomach))
        taste_mult   == calculate_taste_mult(stomach)
        craving_mult == calculate_craving_mult(stomach, cr)
        nutrition_sp ==
            FMul(FMul(FMul(FMul(FMul(density_sum, balance_mult), variety_mult),
                           taste_mult), craving_mult), cfg.dinner_party_mult)
    IN  FMul(nutrition_sp + BASE_SKILL_POINTS, cfg.server_mult)

get_sp_delta(stomach, food, cr, cfg) ==
    calculate_sp(StomachAddOne(stomach, food), cr, cfg) - calculate_sp(stomach, cr, cfg)

-----------------------------------------------------------------------------
(* state/manager.rs: FoodStateManager *)

\* FoodStateManager::new: later entries with the same key replace earlier ones
FoodStateManager_new(list) ==
    [k \in {key(list[i]) : i \in DOMAIN list} |->
        list[CHOOSE i \in DOMAIN list :
                /\ key(list[i]) = k
                /\ \A j \in DOMAIN list : key(list[j]) = k => j <= i]]

get_food(fs, name) ==
    IF to_lowercase(name) \in DOMAIN fs THEN {fs[to_lowercase(name)]} ELSE {}

stomach_food_map(fs) ==
    LET ks == SetToSeq({j \in DOMAIN fs : fs[j].stomach > 0})
    IN  collect([i \in DOMAIN ks |-> [food |-> fs[ks[i]], qty |-> fs[ks[i]].stomach]])

\* variant: the filter on available is missing
all_available_unfiltered(fs, ord) == [i \in DOMAIN ord |-> fs[ord[i]]]

\* the Vec in the map's iteration order
all_available(fs, ord) ==
    SelectSeq([i \in DOMAIN ord |-> fs[ord[i]]], LAMBDA f : f.available > 0)

\* variant: food.available -= 1 is missing
consume_food_keeps_available(fs, name) ==
    LET k == to_lowercase(name)
    IN  IF k \notin DOMAIN fs THEN [ok |-> FALSE, err |-> "FoodNotFound", foods |-> fs]
        ELSE IF fs[k].available = 0
             THEN [ok |-> FALSE, err |-> "InvalidInput", foods |-> fs]
             ELSE [ok |-> TRUE, err |-> "", foods |-> [fs EXCEPT ![k].stomach = @ + 1]]

\* variant: the check of food.available is missing
consume_food_without_guard(fs, name) ==
    LET k == to_lowercase(name)
    IN  IF k \notin DOMAIN fs THEN [ok |-> FALSE, err |-> "FoodNotFound", foods |-> fs]
        ELSE [ok |-> TRUE, err |-> "",
              foods |-> [fs EXCEPT ![k].stomach = @ + 1, ![k].available = @ - 1]]

\* consume_food: [ok, foods]; an error leaves the catalog as it was
consume_food(fs, name) ==
    LET k == to_lowercase(name)
    IN  IF k \notin DOMAIN fs THEN [ok |-> FALSE, err |-> "FoodNotFound", foods |-> fs]
        ELSE IF fs[k].available = 0
             THEN [ok |-> FALSE, err |-> "InvalidInput", foods |-> fs]
             ELSE [ok |-> TRUE, err |-> "",
                   foods |-> [fs EXCEPT ![k].stomach = @ + 1, ![k].available = @ - 1]]

total_stomach_calories(fs) ==
    LET ks == SetToSeq(DOMAIN fs)
    IN  SumSeq([i \in DOMAIN ks |-> fs[ks[i]].calories * fs[ks[i]].stomach])

-----------------------------------------------------------------------------
(* planner/ranking.rs: the candidate ranker.  Option<&Food> is a sequence  *)
(* of length 0 (None) or 1 (Some).                                         *)

None == <<>>
Some(x) == <<x>>

\* slice::sort_by: a stable sort; Less(a, b) is "the comparator says Less"
sort_by(seq, Less(_, _)) ==
    LET insert(s, x) ==
            LET later == {j \in DOMAIN s : Less(x, s[j])}
                pos   == IF later = {} THEN Len(s) + 1
                         ELSE CHOOSE j \in later : \A i \in later : j <= i
            IN  SubSeq(s, 1, pos - 1) \o <<x>> \o SubSeq(s, pos, Len(s))
        sorted[i \in 0..Len(seq)] ==
            IF i = 0 THEN <<>> ELSE insert(sorted[i - 1], seq[i])
    IN  sorted[Len(seq)]

\* Iterator::max_by: the last of the maximal elements, None on an empty iterator
max_by(seq, Val(_)) ==
    IF seq = <<>> THEN None
    ELSE LET val  == collect([i \in DOMAIN seq |-> Val(seq[i])])
             best == {i \in DOMAIN seq : \A j \in DOMAIN seq : val[j] <= val[i]}
         IN  Some(seq[CHOOSE i \in best : \A j \in best : j <= i])

calculate_state_snapshot(stomach, cr, cfg) ==
    [variety_mult |-> calculate_variety_mult(count_variety_qualifying(stomach)),
     taste_mult   |-> calculate_taste_mult(stomach),
     sp           |-> calculate_sp(stomach, cr, cfg)]

is_craving_match(food_name, cr) ==
    \E i \in DOMAIN cr : to_lowercase(cr[i]) = to_lowercase(food_name)

low_calorie_penalty(calories) ==
    IF calories >= CAL_FLOOR THEN 0
    ELSE LET x == SCALE - (calories * SCALE) \div CAL_FLOOR
         IN  0 - FMul(CAL_PENALTY_GAMMA, FMul(x, x))

soft_variety_bias(stomach, food) ==
    LET mult_before == calculate_variety_mult(count_variety_qualifying(stomach))
        new_stomach == StomachAddOne(stomach, food)
        mult_after  == calculate_variety_mult(count_variety_qualifying(new_stomach))
        delta_mult  == mult_after - mult_before
        ns_after    == NutrientDensity_sum(sum_all_weighted_nutrients(new_stomach).density)
    IN  FMul(FMul(SOFT_BIAS_GAMMA, ns_after), delta_mult)

proximity_bias(stomach, food) ==
    LET current_count == StomachGet(stomach, food)
        p_before == (food.calories * current_count * SCALE) \div VARIETY_CAL_THRESHOLD
        p_after  == (food.calories * (current_count + 1) * SCALE) \div VARIETY_CAL_THRESHOLD
        grow     == Max2(Min2(p_after, SCALE) - Min2(p_before, SCALE), 0)
        over     == Max2(p_after - SCALE, 0)
        overshoot_penalty ==
            IF TIE_ALPHA > 0 THEN FMul(over, FDiv(TIE_BETA, TIE_ALPHA)) ELSE 0
    IN  FMul(TIE_ALPHA, grow - overshoot_penalty)

\* Stage 1 of choose_next_bite: one Candidate per available food
candidates_of(fs, ord, cr, cfg) ==
    LET available == all_available(fs, ord)
        stomach   == stomach_food_map(fs)
    IN  collect([i \in DOMAIN available |->
            [food              |-> available[i],
             rank_score        |-> get_sp_delta(stomach, available[i], cr, cfg)
                                     + low_calorie_penalty(available[i].calories),
             soft_variety_bias |-> soft_variety_bias(stomach, available[i]),
             proximity_bias    |-> proximity_bias(stomach, available[i])]])

\* variant: the threshold lies TIE_EPSILON above the best score
finalists_of_above(candidates) ==
    LET best_rank == SetMax({candidates[i].rank_score : i \in DOMAIN candidates})
        threshold == best_rank + TIE_EPSILON
    IN  SelectSeq(candidates, LAMBDA c : c.rank_score >= threshold)

\* Stage 2 of choose_next_bite: the candidates within TIE_EPSILON of the best
finalists_of(candidates) ==
    LET best_rank == SetMax({candidates[i].rank_score : i \in DOMAIN candidates})
        threshold == best_rank - TIE_EPSILON
    IN  SelectSeq(candidates, LAMBDA c : c.rank_score >= threshold)

\* variant: the comparator of Stage 3 without its reversal (ascending)
finalist_less_ascending(a, b) ==
    LET primary_a == a.rank_score + a.soft_variety_bias
        primary_b == b.rank_score + b.soft_variety_bias
    IN  IF primary_b = primary_a
        THEN a.proximity_bias < b.proximity_bias
        ELSE primary_a < primary_b

\* the comparator of Stage 3 returns Less for (a, b): a sorts before b
finalist_less(a, b) ==
    LET primary_a == a.rank_score + a.soft_variety_bias
        primary_b == b.rank_score + b.soft_variety_bias
    IN  IF primary_b = primary_a
        THEN b.proximity_bias < a.proximity_bias
        ELSE primary_b < primary_a

choose_next_bite(fs, ord, cr, cfg) ==
    LET available == all_available(fs, ord)
    IN  IF available = <<>> THEN None
        ELSE LET finalists == sort_by(finalists_of(candidates_of(fs, ord, cr, cfg)),
                                      finalist_less)
             IN  IF finalists = <<>> THEN None ELSE Some(finalists[1].food)

\* variant: names are compared as written, without to_lowercase
pick_feasible_craving_case_sensitive(fs, ord, cr, cfg) ==
    IF cr = <<>> THEN None
    ELSE LET stomach == stomach_food_map(fs)
             matching == SelectSeq(all_available(fs, ord),
                            LAMBDA f : f.name \in {cr[i] : i \in DOMAIN cr})
             delta(f) == get_sp_delta(stomach, f, cr, cfg)
         IN  max_by(matching, delta)

pick_feasible_craving(fs, ord, cr, cfg) ==
    IF cr = <<>> THEN None
    ELSE LET stomach == stomach_food_map(fs)
             matching == SelectSeq(all_available(fs, ord),
                            LAMBDA f : to_lowercase(f.name) \in craving_set_of(cr))
             delta(f) == get_sp_delta(stomach, f, cr, cfg)
         IN  max_by(matching, delta)

\* generate_plan, lines 238-239: a craving first, otherwise the best bite
select_next(fs, ord, cr, cfg) ==
    LET craving == pick_feasible_craving(fs, ord, cr, cfg)
    IN  IF craving # None THEN craving ELSE choose_next_bite(fs, ord, cr, cfg)

\* A variant of MealPlanItem::new that records no calories for the bite
MealPlanItem_new_without_calories(food, before, after, cr, cfg) ==
    LET state_before == calculate_state_snapshot(stomach_food_map(before), cr, cfg)
        state_after  == calculate_state_snapshot(stomach_food_map(after), cr, cfg)
    IN  [food_name     |-> food.name,
         calories      |-> 0,
         sp_gain       |-> state_after.sp - state_before.sp,
         new_total_sp  |-> state_after.sp,
         is_craving    |-> is_craving_match(food.name, cr),
         variety_delta |-> state_after.variety_mult - state_before.variety_mult,
         taste_delta   |-> state_after.taste_mult - state_before.taste_mult]

\* A variant of MealPlanItem::new whose sp_gain is the total after the bite
MealPlanItem_new_gain_is_total(food, before, after, cr, cfg) ==
    LET state_before == calculate_state_snapshot(stomach_food_map(before), cr, cfg)
        state_after  == calculate_state_snapshot(stomach_food_map(after), cr, cfg)
    IN  [food_name     |-> food.name,
         calories      |-> food.calories,
         sp_gain       |-> state_after.sp,
         new_total_sp  |-> state_after.sp,
         is_craving    |-> is_craving_match(food.name, cr),
         variety_delta |-> state_after.variety_mult - state_before.variety_mult,
         taste_delta   |-> state_after.taste_mult - state_before.taste_mult]

\* MealPlanItem::new for the bite of `food`, from the catalog before and after it
MealPlanItem_new(food, before, after, cr, cfg) ==
    LET state_before == calculate_state_snapshot(stomach_food_map(before), cr, cfg)
        state_after  == calculate_state_snapshot(stomach_food_map(after), cr, cfg)
    IN  [food_name     |-> food.name,
         calories      |-> food.calories,
         sp_gain       |-> state_after.sp - state_before.sp,
         new_total_sp  |-> state_after.sp,
         is_craving    |-> is_craving_match(food.name, cr),
         variety_delta |-> state_after.variety_mult - state_before.variety_mult,
         taste_delta   |-> state_after.taste_mult - state_before.taste_mult]

-----------------------------------------------------------------------------
(* tuner/knobs.rs and tuner/evaluation.rs: the planner run with knobs *)

TunerKnobs_default ==
    [soft_bias_gamma |-> SOFT_BIAS_GAMMA, tie_alpha |-> TIE_ALPHA, tie_beta |-> TIE_BETA,
     tie_epsilon |-> TIE_EPSILON, cal_floor |-> CAL_FLOOR,
     cal_penalty_gamma |-> CAL_PENALTY_GAMMA,
     balance_bias_gamma |-> 0, repetition_penalty_gamma |-> 0]

\* variant: no penalty for low-calorie items
knobs_low_calorie_penalty_none(calories, knobs) == 0

\* evaluation.rs: low_calorie_penalty(calories, knobs)
knobs_low_calorie_penalty(calories, knobs) ==
    IF calories >= knobs.cal_floor THEN 0
    ELSE LET x == SCALE - (calories * SCALE) \div knobs.cal_floor
         IN  0 - FMul(knobs.cal_penalty_gamma, FMul(x, x))

\* evaluation.rs: soft_variety_bias(stomach, food, knobs)
knobs_soft_variety_bias(stomach, food, knobs) ==
    LET mult_before == calculate_variety_mult(count_variety_qualifying(stomach))
        new_stomach == StomachAddOne(stomach, food)
        mult_after  == calculate_variety_mult(count_variety_qualifying(new_stomach))
        delta_mult  == mult_after - mult_before
        ns_after    == NutrientDensity_sum(sum_all_weighted_nutrients(new_stomach).density)
    IN  FMul(FMul(knobs.soft_bias_gamma, ns_after), delta_mult)

\* evaluation.rs: proximity_bias(stomach, food, knobs)
knobs_proximity_bias(stomach, food, knobs) ==
    LET current_count == StomachGet(stomach, food)
        p_before == (food.calories * current_count * SCALE) \div VARIETY_CAL_THRESHOLD
        p_after  == (food.calories * (current_count + 1) * SCALE) \div VARIETY_CAL_THRESHOLD
        grow     == Max2(Min2(p_after, SCALE) - Min2(p_before, SCALE), 0)
        over     == Max2(p_after - SCALE, 0)
        overshoot_penalty ==
            IF knobs.tie_alpha > 0 THEN FMul(over, FDiv(knobs.tie_beta, knobs.tie_alpha))
            ELSE 0
    IN  FMul(knobs.tie_alpha, grow - overshoot_penalty)

\* min/max nutrient density of a stomach, as evaluate_budget and balance_bias
\* (for the stomach after the bite) compute it
balance_ratio_of(density) ==
    IF NutrientDensity_max(density) > 0
    THEN LET min_val == NutrientDensity_min_nonzero(density)
         IN  IF min_val = F64_MAX THEN 0 ELSE FDiv(min_val, NutrientDensity_max(density))
    ELSE 0

balance_bias(stomach, food, knobs) ==
    IF knobs.balance_bias_gamma = 0 THEN 0
    ELSE LET density_before == sum_all_weighted_nutrients(stomach).density
             balance_before ==
                 IF NutrientDensity_max(density_before) > 0
                 THEN FDiv(NutrientDensity_min_nonzero(density_before),
                           NutrientDensity_max(density_before))
                 ELSE 0
             density_after ==
                 sum_all_weighted_nutrients(StomachAddOne(stomach, food)).density
             improvement == balance_ratio_of(density_after) - balance_before
         IN  FMul(knobs.balance_bias_gamma, improvement)

repetition_penalty(stomach, food, knobs) ==
    IF knobs.repetition_penalty_gamma = 0 THEN 0
    ELSE LET this_count  == StomachGet(stomach, food)
             total_bites == SumSeq([i \in DOMAIN stomach |-> stomach[i].qty])
         IN  IF total_bites = 0 THEN 0
             ELSE 0 - FMul(knobs.repetition_penalty_gamma, FDiv(this_count, total_bites))

knobs_finalist_less(a, b) ==
    LET primary_a == a.rank_score + a.soft_variety_bias + a.balance_bias
                       + a.repetition_penalty
        primary_b == b.rank_score + b.soft_variety_bias + b.balance_bias
                       + b.repetition_penalty
    IN  IF primary_b = primary_a
        THEN b.proximity_bias < a.proximity_bias
        ELSE primary_b < primary_a

choose_next_bite_with_knobs(fs, ord, knobs, cfg) ==
    LET available == all_available(fs, ord)
        stomach   == stomach_food_map(fs)
        candidates ==
            collect([i \in DOMAIN available |->
                [food               |-> available[i],
                 rank_score         |-> get_sp_delta(stomach, available[i], <<>>, cfg)
                                          + knobs_low_calorie_penalty(available[i].calories, knobs),
                 soft_variety_bias  |-> knobs_soft_variety_bias(stomach, available[i], knobs),
                 proximity_bias     |-> knobs_proximity_bias(stomach, available[i], knobs),
                 balance_bias       |-> balance_bias(stomach, available[i], knobs),
                 repetition_penalty |-> repetition_penalty(stomach, available[i], knobs)]])
        best_rank == SetMax({candidates[i].rank_score : i \in DOMAIN candidates})
        threshold == best_rank - knobs.tie_epsilon
        finalists == sort_by(SelectSeq(candidates, LAMBDA c : c.rank_score >= threshold),
                             knobs_finalist_less)
    IN  IF available = <<>> THEN None
        ELSE IF finalists = <<>> THEN None ELSE Some(finalists[1].food)

\* variant: the copy keeps the counters of the input
test_foods_keeping_counters(list) == list

\* evaluate_budget's copy of the catalog
test_foods_of(list) ==
    [i \in DOMAIN list |-> [list[i] EXCEPT !.stomach = 0, !.available = 999]]

\* the BudgetResult evaluate_budget builds from the manager its run leaves;
\* final_sp is computed by generate_plan_with_knobs on the same manager
BudgetResult_of(fs, budget_, bites) ==
    LET stomach == stomach_food_map(fs)
    IN  [budget         |-> budget_,
         final_sp       |-> calculate_sp(stomach, <<>>, SpConfigDefault),
         total_calories |-> total_stomach_calories(fs),
         variety_count  |-> count_variety_qualifying(stomach),
         bites          |-> bites,
         balance_ratio  |-> balance_ratio_of(sum_all_weighted_nutrients(stomach).density)]

-----------------------------------------------------------------------------
(* The catalogs, preference lists and budgets the model is run on *)

MaxAvail == 2        \* small supplies are 0..MaxAvail
MaxStomach == 1      \* units of the second item already selected: 0..MaxStomach
MaxSatisfied == 2    \* counts of preferences satisfied before the run: 0..MaxSatisfied

Apple  == [name |-> <<"A","p","p","l","e">>, calories |-> 100, carbs |-> 20000,
           protein |-> 1000, fats |-> 500, vitamins |-> 5000, tastiness |-> 2]
Bread  == [name |-> <<"B","r","e","a","d">>, calories |-> 500, carbs |-> 40000,
           protein |-> 8000, fats |-> 2000, vitamins |-> 1000, tastiness |-> 1]
Cheese == [name |-> <<"C","h","e","e","s","e">>, calories |-> 300, carbs |-> 1000,
           protein |-> 20000, fats |-> 25000, vitamins |-> 2000, tastiness |-> 3]
\* a second item with Apple's attributes, and a zero-cost item
Pear   == [name |-> <<"P","e","a","r">>, calories |-> 100, carbs |-> 20000,
           protein |-> 1000, fats |-> 500, vitamins |-> 5000, tastiness |-> 2]
Water  == [name |-> <<"W","a","t","e","r">>, calories |-> 0, carbs |-> 0,
           protein |-> 0, fats |-> 0, vitamins |-> 0, tastiness |-> 99]

Fixtures == {<<Apple, Bread, Cheese>>, <<Apple, Pear, Water>>}

WithState(item, st, av) ==
    [name |-> item.name, calories |-> item.calories, carbs |-> item.carbs,
     protein |-> item.protein, fats |-> item.fats, vitamins |-> item.vitamins,
     tastiness |-> item.tastiness, stomach |-> st, available |-> av]

\* the Vec<Food> handed to FoodStateManager::new
FoodLists ==
    {[i \in 1..3 |-> WithState(fx[i], IF i = 2 THEN st ELSE 0, av[i])] :
        fx \in Fixtures, st \in 0..MaxStomach, av \in [1..3 -> 0..MaxAvail]}
    \cup
    {[i \in 1..3 |-> WithState(fx[i], 0, MAX_ITERATIONS + MaxAvail)] : fx \in Fixtures}

CravingLists ==
    {<<>>,
     <<<<"C","H","E","E","S","E">>>>,
     <<<<"a","p","p","l","e">>, <<"B","R","E","A","D">>>>}

SpConfigs == {SpConfigDefault, [server_mult |-> 2000, dinner_party_mult |-> 1500]}

Budgets == {0 - 50, 0, 50, 1000, 3000, 100000}

\* the catalogs and knob bundles the tuner's evaluation is run on
TunerFoodLists == {list \in FoodLists : \A i \in 1..3 : list[i].available = list[1].available}

KnobBundles ==
    {TunerKnobs_default,
     [TunerKnobs_default EXCEPT !.balance_bias_gamma = 1914,
                                !.repetition_penalty_gamma = 1255,
                                !.tie_epsilon = 2000]}

TunerBudgets == {0 - 50, 0, 50, 1000}

Reverse(seq) == [i \in DOMAIN seq |-> seq[Len(seq) + 1 - i]]

\* iteration orders of the HashMap over the keys of `list`
Orders(list) ==
    LET keys == [i \in DOMAIN list |-> key(list[i])]
    IN  {keys, Reverse(keys)}

NoCall == [op |-> "none", args |-> <<>>, out |-> <<>>]

\* run_tuner has not been called
NoRun ==
    [phase |-> "none", iterations |-> 0, empty_budgets |-> FALSE, hill_climb |-> FALSE,
     indices |-> <<>>, pos |-> 0, refined_count |-> 0, balanced_idx |-> <<>>]

\* hill_climb has not been called
NoClimb == [phase |-> "none"]

-----------------------------------------------------------------------------
(* The planner: generate_plan and the read-only calls around it *)

\* the planner binary (pc = "idle") or the tuner binary (pc = "tuner") has
\* loaded a catalog
Init ==
    /\ \/ /\ pc = "idle"
          /\ \E list \in FoodLists :
                /\ foods = FoodStateManager_new(list)
                /\ order \in Orders(list)
          /\ cravings \in CravingLists
          /\ config \in SpConfigs
       \/ /\ pc = "tuner"
          /\ \E list \in TunerFoodLists :
                /\ foods = FoodStateManager_new(list)
                /\ order \in Orders(list)
          /\ cravings = <<>>
          /\ config = SpConfigDefault
    /\ budget = 0
    /\ remaining = 0
    /\ iter = 0
    /\ plan = <<>>
    /\ stop = "none"
    /\ foods0 = foods
    /\ last = NoCall
    /\ tfoods = foods
    /\ torder = order
    /\ tknobs = TunerKnobs_default
    /\ results = <<>>
    /\ frontier = <<>>
    /\ rt = NoRun
    /\ hc = NoClimb
    /\ earlier = NoCall

\* choose_next_bite(&manager, &cravings, &config)
CallChooseNextBite ==
    /\ pc = "idle"
    /\ last' = [op |-> "choose_next_bite", args |-> <<>>,
                out |-> choose_next_bite(foods, order, cravings, config)]
    /\ UNCHANGED <<earlier, rt, hc, foods, order, cravings, config, pc, budget, remaining, iter,
                   plan, stop, foods0, tfoods, torder, tknobs, results, frontier>>

\* calculate_sp(&manager.stomach_food_map(), &cravings, &config)
CallCalculateSp ==
    /\ pc = "idle"
    /\ last' = [op |-> "calculate_sp", args |-> <<>>,
                out |-> <<calculate_sp(stomach_food_map(foods), cravings, config)>>]
    /\ UNCHANGED <<earlier, rt, hc, foods, order, cravings, config, pc, budget, remaining, iter,
                   plan, stop, foods0, tfoods, torder, tknobs, results, frontier>>

\* FoodStateManager::get_current_sp(&cravings, cravings_satisfied).  The count is
\* handed to calculate_sp in the place of its SpConfig; calculate_sp has no
\* parameter for a count and reads none, so the score is the one of the
\* selection and the preference list under the default SpConfig.
get_current_sp(fs, cr, cravings_satisfied) ==
    calculate_sp(stomach_food_map(fs), cr, SpConfigDefault)

CallGetCurrentSp ==
    /\ pc = "idle"
    /\ \E cravings_satisfied \in 0..MaxSatisfied :
          last' = [op |-> "get_current_sp", args |-> <<cravings_satisfied>>,
                   out |-> <<get_current_sp(foods, cravings, cravings_satisfied)>>]
    /\ UNCHANGED <<earlier, rt, hc, foods, order, cravings, config, pc, budget, remaining, iter,
                   plan, stop, foods0, tfoods, torder, tknobs, results, frontier>>

\* generate_plan(&mut manager, &cravings, &config, remaining_calories): entry
GeneratePlan ==
    /\ pc = "idle"
    /\ \E remaining_calories \in Budgets :
          /\ budget' = remaining_calories
          /\ remaining' = remaining_calories
    /\ plan' = <<>>
    /\ iter' = 0
    /\ stop' = "none"
    /\ foods0' = foods
    /\ last' = NoCall
    /\ pc' = "plan"
    /\ UNCHANGED <<earlier, rt, hc, foods, order, cravings, config, tfoods, torder, tknobs,
                   results, frontier>>

\* variants: a loop without the cap, no budget test, no first-bite exception
loop_continues_always(i) == TRUE
exceeds_budget_never(food, remaining_) == FALSE
exceeds_budget_always(food, remaining_) == TRUE
is_first_bite_never(plan_) == FALSE

\* for _ in 0..MAX_ITERATIONS: the loop body runs for the i-th time (i from 0)
loop_continues(i) == i < MAX_ITERATIONS

\* let exceeds_budget = food.calories > remaining;
exceeds_budget(food, remaining_) == food.calories > remaining_

\* let is_first_bite = plan.is_empty();
is_first_bite(plan_) == plan_ = <<>>

Return(why) ==
    /\ pc' = "done"
    /\ stop' = why
    /\ UNCHANGED <<earlier, rt, hc, foods, order, cravings, config, budget, remaining, iter, plan,
                   foods0, last, tfoods, torder, tknobs, results, frontier>>

\* the for loop has run MAX_ITERATIONS times
PlanLoopEnd ==
    /\ pc = "plan"
    /\ ~loop_continues(iter)
    /\ Return("cap")

\* if remaining <= 0.0 { break; }
PlanBreakBudget ==
    /\ pc = "plan"
    /\ loop_continues(iter)
    /\ remaining <= 0
    /\ Return("budget")

\* if manager.all_available().is_empty() { break; }
PlanBreakNoFood ==
    /\ pc = "plan"
    /\ loop_continues(iter)
    /\ remaining > 0
    /\ all_available(foods, order) = <<>>
    /\ Return("no_supply")

\* the rest of one iteration: select a food; break on None or on a food that
\* exceeds the budget after the first bite; otherwise consume it, push its
\* MealPlanItem and pay its calories
PlanSelect ==
    /\ pc = "plan"
    /\ loop_continues(iter)
    /\ remaining > 0
    /\ all_available(foods, order) # <<>>
    /\ \E selected \in {select_next(foods, order, cravings, config)} :
          IF selected = None THEN Return("no_candidate")
          ELSE \E food \in {selected[1]} :
               IF exceeds_budget(food, remaining) /\ ~is_first_bite(plan)
               THEN Return("exceeds")
               ELSE     /\ foods' = consume_food(foods, food.name).foods
                        /\ plan' = Append(plan,
                                     MealPlanItem_new(food, foods,
                                         consume_food(foods, food.name).foods,
                                         cravings, config))
                        /\ remaining' = remaining - food.calories
                        /\ iter' = iter + 1
                        /\ UNCHANGED <<earlier, rt, hc, order, cravings, config, pc, budget, stop,
                                       foods0, last, tfoods, torder, tknobs, results, frontier>>

\* FoodStateManager::to_foods: the catalog as a Vec<Food>
to_foods(fs, ord) == [i \in DOMAIN ord |-> fs[ord[i]]]

\* evaluate_budget(&foods, budget, &knobs) on the loaded catalog: entry, up to
\* the call of generate_plan_with_knobs
EvaluateBudget ==
    /\ pc = "tuner"
    /\ \E budget_ \in TunerBudgets :
          /\ budget' = budget_
          /\ remaining' = budget_
    /\ tknobs' \in KnobBundles
    /\ tfoods' = FoodStateManager_new(test_foods_of(to_foods(foods, order)))
    /\ torder' \in {order, Reverse(order)}
    /\ iter' = 0
    /\ last' = NoCall
    /\ pc' = "eval"
    /\ UNCHANGED <<earlier, rt, hc, foods, order, cravings, config, plan, stop, foods0, results, frontier>>

\* generate_plan_with_knobs has left its loop: evaluate_budget returns its BudgetResult
EvalReturn ==
    /\ pc' = "tuner"
    /\ last' = [op |-> "evaluate_budget", args |-> <<>>,
                out |-> <<BudgetResult_of(tfoods, budget, iter)>>]
    /\ UNCHANGED <<earlier, rt, hc, foods, order, cravings, config, budget, remaining, iter, plan, stop,
                   foods0, tfoods, torder, tknobs, results, frontier>>

\* the loop's end, and its first two breaks
EvalLoopEnd ==
    /\ pc = "eval"
    /\ \/ iter >= MAX_ITERATIONS
       \/ remaining <= 0
       \/ all_available(tfoods, torder) = <<>>
    /\ EvalReturn

\* the rest of one iteration of generate_plan_with_knobs (iter counts the bites)
EvalSelect ==
    /\ pc = "eval"
    /\ iter < MAX_ITERATIONS
    /\ remaining > 0
    /\ all_available(tfoods, torder) # <<>>
    /\ \E selected \in {choose_next_bite_with_knobs(tfoods, torder, tknobs, SpConfigDefault)} :
          IF selected = None THEN EvalReturn
          ELSE IF selected[1].calories > remaining /\ iter > 0 THEN EvalReturn
          ELSE /\ tfoods' = consume_food(tfoods, selected[1].name).foods
               /\ remaining' = remaining - selected[1].calories
               /\ iter' = iter + 1
               /\ UNCHANGED <<earlier, rt, hc, foods, order, cravings, config, pc, budget, plan, stop,
                              foods0, last, torder, tknobs, results, frontier>>

Next ==
    \/ EvaluateBudget
    \/ EvalLoopEnd
    \/ EvalSelect
    \/ CallChooseNextBite
    \/ CallCalculateSp
    \/ CallGetCurrentSp
    \/ GeneratePlan
    \/ PlanLoopEnd
    \/ PlanBreakBudget
    \/ PlanBreakNoFood
    \/ PlanSelect

Spec == Init /\ [][Next]_vars

\* generate_plan alone, on the catalogs whose items are all out of supply, all
\* at the small supply, or all saturated.  The loop always gets its turn:
\* generate_plan is straight-line code that nothing suspends.
InitPlan ==
    /\ Init
    /\ pc = "idle"
    /\ \A k \in DOMAIN foods : foods[k].stomach = 0
    /\ \A k, l \in DOMAIN foods : foods[k].available = foods[l].available

PlanStep ==
    \/ PlanLoopEnd
    \/ PlanBreakBudget
    \/ PlanBreakNoFood
    \/ PlanSelect

NextPlan ==
    \/ GeneratePlan
    \/ PlanStep

\* weak fairness of PlanStep.  A step of the loop is enabled exactly while
\* pc = "plan" (the guards of the four steps cover every such state), so
\* WF_vars(PlanStep) is written with that state predicate for ENABLED.
FairSpec ==
    /\ InitPlan
    /\ [][NextPlan]_vars
    /\ ([]<>(pc # "plan") \/ []<><<PlanStep>>_vars)

-----------------------------------------------------------------------------
(* tuner/evaluation.rs: dominance and the Pareto frontier.  A metric is an  *)
(* f64: a number >= 0 here, or NaN (the averages of evaluate_knobs over an  *)
(* empty budget list are 0.0 / 0.0).  Comparisons with NaN are false.       *)

NaN == 0 - 1

f64_ge(a, b) == a # NaN /\ b # NaN /\ a >= b
f64_gt(a, b) == a # NaN /\ b # NaN /\ a > b

\* self.is_dominated_by(other), with a variant that leaves efficiency out
is_dominated_by_without_efficiency(self, other) ==
    LET all_geq == /\ f64_ge(other.avg_final_sp, self.avg_final_sp)
                   /\ f64_ge(other.avg_variety_count, self.avg_variety_count)
                   /\ f64_ge(other.avg_balance_ratio, self.avg_balance_ratio)
        any_strictly_better ==
                   \/ f64_gt(other.avg_final_sp, self.avg_final_sp)
                   \/ f64_gt(other.avg_variety_count, self.avg_variety_count)
                   \/ f64_gt(other.avg_balance_ratio, self.avg_balance_ratio)
    IN  all_geq /\ any_strictly_better

\* variant: any_strictly_better is left out
is_dominated_by_or_equal(self, other) ==
    /\ f64_ge(other.avg_final_sp, self.avg_final_sp)
    /\ f64_ge(other.avg_variety_count, self.avg_variety_count)
    /\ f64_ge(other.avg_balance_ratio, self.avg_balance_ratio)
    /\ f64_ge(other.avg_delta_sp_per_100kcal, self.avg_delta_sp_per_100kcal)

is_dominated_by(self, other) ==
    LET dominated_sp         == f64_ge(other.avg_final_sp, self.avg_final_sp)
        dominated_variety    == f64_ge(other.avg_variety_count, self.avg_variety_count)
        dominated_balance    == f64_ge(other.avg_balance_ratio, self.avg_balance_ratio)
        dominated_efficiency == f64_ge(other.avg_delta_sp_per_100kcal,
                                       self.avg_delta_sp_per_100kcal)
        all_geq == dominated_sp /\ dominated_variety /\ dominated_balance
                   /\ dominated_efficiency
        any_strictly_better ==
            \/ f64_gt(other.avg_final_sp, self.avg_final_sp)
            \/ f64_gt(other.avg_variety_count, self.avg_variety_count)
            \/ f64_gt(other.avg_balance_ratio, self.avg_balance_ratio)
            \/ f64_gt(other.avg_delta_sp_per_100kcal, self.avg_delta_sp_per_100kcal)
    IN  all_geq /\ any_strictly_better

\* the indices (from 0, ascending) of the results no result of the slice dominates
pareto_frontier(results_) ==
    LET idx  == [i \in DOMAIN results_ |-> i - 1]
        keep == SelectSeq(idx, LAMBDA i :
                    ~ \E j \in DOMAIN results_ :
                          is_dominated_by(results_[i + 1], results_[j]))
    IN  keep

MaxResults == 3      \* result lists have 0..MaxResults entries

EvaluationResult(sp, eff, var, bal) ==
    [avg_final_sp |-> sp, avg_delta_sp_per_100kcal |-> eff,
     avg_variety_count |-> var, avg_balance_ratio |-> bal]

\* the results a list is drawn from: every combination of a low and a high
\* value of the four metrics, and the all-NaN result of an empty budget list
EvaluationResults ==
    {EvaluationResult(sp, eff, var, bal) : sp \in {0, 1}, eff \in {0, 1},
                                           var \in {0, 1}, bal \in {0, 1}}
    \cup {EvaluationResult(NaN, NaN, NaN, NaN)}

InitPareto ==
    /\ pc = "pareto"
    /\ foods = FoodStateManager_new(
                  [i \in 1..3 |-> WithState(<<Apple, Bread, Cheese>>[i], 0, 1)])
    /\ order = <<key(Apple), key(Bread), key(Cheese)>>
    /\ cravings = <<>>
    /\ config = SpConfigDefault
    /\ budget = 0
    /\ remaining = 0
    /\ iter = 0
    /\ plan = <<>>
    /\ stop = "none"
    /\ foods0 = foods
    /\ last = NoCall
    /\ tfoods = foods
    /\ torder = order
    /\ tknobs = TunerKnobs_default
    /\ results = <<>>
    /\ frontier = <<>>
    /\ rt = NoRun
    /\ hc = NoClimb
    /\ earlier = NoCall

\* one more EvaluationResult is collected (run_tuner's results.push)
PushResult ==
    /\ pc \in {"pareto", "pareto_done"}
    /\ Len(results) < MaxResults
    /\ \E r \in EvaluationResults : results' = Append(results, r)
    /\ frontier' = <<>>
    /\ pc' = "pareto"
    /\ UNCHANGED <<earlier, rt, hc, foods, order, cravings, config, budget, remaining, iter, plan, stop,
                   foods0, last, tfoods, torder, tknobs>>

\* let frontier = pareto_frontier(&results);
CallParetoFrontier ==
    /\ pc = "pareto"
    /\ frontier' = pareto_frontier(results)
    /\ pc' = "pareto_done"
    /\ UNCHANGED <<earlier, rt, hc, foods, order, cravings, config, budget, remaining, iter, plan, stop,
                   foods0, last, tfoods, torder, tknobs, results>>

NextPareto ==
    \/ PushResult
    \/ CallParetoFrontier

ParetoSpec == InitPareto /\ [][NextPareto]_vars

-----------------------------------------------------------------------------
(* tuner/evaluation.rs: select_balanced.  In this part a metric is a whole  *)
(* number of units of 5e-11, so that the tolerance of normalize, 1e-10, is  *)
(* NORMALIZE_EPS units; a normalized metric has NORM_SCALE units per 1.0.   *)
(* The distance is kept squared: sqrt is increasing, so distances compare   *)
(* as their squares do.                                                     *)

NORMALIZE_EPS == 2
NORM_SCALE == 1000

\* min_max: the folds of f64::min and f64::max, which pass over a NaN
min_max(values) ==
    LET numbers == values \ {NaN}
    IN  IF numbers = {} THEN [min |-> F64_MAX, max |-> 0 - F64_MAX]
        ELSE [min |-> CHOOSE v \in numbers : \A w \in numbers : v <= w,
              max |-> CHOOSE v \in numbers : \A w \in numbers : w <= v]

\* (of no number at all, min is infinity and max - min is not below the tolerance)
normalize(value, min, max) ==
    IF min # F64_MAX /\ (IF max - min < 0 THEN min - max ELSE max - min) < NORMALIZE_EPS
    THEN NORM_SCALE
    ELSE IF value = NaN THEN NaN
    ELSE ((value - min) * NORM_SCALE) \div (max - min)

\* the squared distance of results_[idx + 1] to the ideal point, normalized
\* over the results the indices list
balanced_distance_sq(results_, indices, idx) ==
    LET listed == {results_[indices[n] + 1] : n \in DOMAIN indices}
        sp     == min_max({r.avg_final_sp : r \in listed})
        var    == min_max({r.avg_variety_count : r \in listed})
        bal    == min_max({r.avg_balance_ratio : r \in listed})
        eff    == min_max({r.avg_delta_sp_per_100kcal : r \in listed})
        r      == results_[idx + 1]
        norm   == <<normalize(r.avg_final_sp, sp.min, sp.max),
                    normalize(r.avg_variety_count, var.min, var.max),
                    normalize(r.avg_balance_ratio, bal.min, bal.max),
                    normalize(r.avg_delta_sp_per_100kcal, eff.min, eff.max)>>
    IN  IF \E k \in 1..4 : norm[k] = NaN THEN NaN
        ELSE SumSeq([k \in 1..4 |-> (NORM_SCALE - norm[k]) * (NORM_SCALE - norm[k])])

\* variant: a later index replaces the best one on an equal distance
select_balanced_last_of_equals(results_, indices) ==
    IF indices = <<>> THEN None
    ELSE LET dist == collect([n \in DOMAIN indices |->
                         balanced_distance_sq(results_, indices, indices[n])])
             best[n \in 0..Len(indices)] ==
                 IF n = 0 THEN [idx |-> indices[1], distance |-> F64_MAX]
                 ELSE IF dist[n] # NaN /\ dist[n] <= best[n - 1].distance
                      THEN [idx |-> indices[n], distance |-> dist[n]]
                      ELSE best[n - 1]
         IN  Some(best[Len(indices)].idx)

\* select_balanced: the loop keeps (best_idx, best_distance), replaced on a
\* strictly smaller distance
select_balanced(results_, indices) ==
    IF indices = <<>> THEN None
    ELSE LET dist == collect([n \in DOMAIN indices |->
                         balanced_distance_sq(results_, indices, indices[n])])
             best[n \in 0..Len(indices)] ==
                 IF n = 0 THEN [idx |-> indices[1], distance |-> F64_MAX]
                 ELSE IF f64_gt(best[n - 1].distance, dist[n])
                      THEN [idx |-> indices[n], distance |-> dist[n]]
                      ELSE best[n - 1]
         IN  Some(best[Len(indices)].idx)

\* results to select from: equal ones, ones that differ in the score by less
\* than the tolerance, and trade-offs between score and variety
BalancedResults ==
    {EvaluationResult(0, 0, 0, 0), EvaluationResult(1, 0, 0, 0),
     EvaluationResult(4, 0, 0, 0), EvaluationResult(0, 0, 4, 0),
     EvaluationResult(3, 0, 1, 4), EvaluationResult(4, 4, 4, 4)}

RECURSIVE IndexLists(_)
\* the lists of distinct indices (from 0) into a list of n results
IndexLists(S) ==
    {<<>>} \cup UNION {{<<i>> \o rest : rest \in IndexLists(S \ {i})} : i \in S}

PushBalancedResult ==
    /\ Len(results) < MaxResults
    /\ \E r \in BalancedResults : results' = Append(results, r)
    /\ last' = NoCall
    /\ UNCHANGED <<earlier, rt, hc, foods, order, cravings, config, pc, budget, remaining, iter, plan,
                   stop, foods0, tfoods, torder, tknobs, frontier>>

\* select_balanced(&results, &indices)
CallSelectBalanced ==
    /\ \E indices \in IndexLists(0..(Len(results) - 1)) :
          last' = [op |-> "select_balanced", args |-> <<indices>>,
                   out |-> select_balanced(results, indices)]
    /\ UNCHANGED <<earlier, rt, hc, foods, order, cravings, config, pc, budget, remaining, iter, plan,
                   stop, foods0, tfoods, torder, tknobs, results, frontier>>

NextBalanced ==
    \/ PushBalancedResult
    \/ CallSelectBalanced

BalancedSpec == InitPareto /\ [][NextBalanced]_vars

-----------------------------------------------------------------------------
(* tuner/search.rs: run_tuner.  evaluate_knobs is a call that, for the       *)
(* catalog and the budgets of the run, returns the four averages of a        *)
(* bundle; here a call returns any of TunerOutcomes, or the all-NaN result   *)
(* when the budget list is empty.  hill_climb returns its argument or the    *)
(* evaluation of a perturbed bundle.                                         *)

MaxIterations == 3       \* config.iterations is 0..MaxIterations

\* partial_cmp of two f64
partial_cmp(a, b) ==
    IF a = NaN \/ b = NaN THEN None
    ELSE IF a < b THEN Some("Less")
    ELSE IF a > b THEN Some("Greater")
    ELSE Some("Equal")

\* variant: only avg_final_sp is compared
cmp_score_sp_only(self, other) ==
    LET sp == partial_cmp(self.avg_final_sp, other.avg_final_sp)
    IN  IF sp = None THEN "Equal" ELSE sp[1]

\* self.cmp_score(other)
cmp_score(self, other) ==
    LET sp  == partial_cmp(self.avg_final_sp, other.avg_final_sp)
        eff == partial_cmp(self.avg_delta_sp_per_100kcal, other.avg_delta_sp_per_100kcal)
        var == partial_cmp(self.avg_variety_count, other.avg_variety_count)
        bal == partial_cmp(self.avg_balance_ratio, other.avg_balance_ratio)
    IN  IF sp \notin {Some("Equal"), None} THEN sp[1]
        ELSE IF eff \notin {Some("Equal"), None} THEN eff[1]
        ELSE IF var \notin {Some("Equal"), None} THEN var[1]
        ELSE IF bal = None THEN "Equal" ELSE bal[1]

\* results.sort_by(|a, b| b.cmp_score(a))
sort_results(results_) ==
    LET before(a, b) == cmp_score(b, a) = "Less"
    IN  sort_by(results_, before)

\* variant: the list is left as the pushes made it
needs_resort_never(refined_count) == FALSE

\* if refined_count > 0
needs_resort(refined_count) == refined_count > 0

\* variant: pareto_indices stays what it was before the refinement
recomputes_frontier_never(refined_count) == FALSE

\* if refined_count > 0 { ...; pareto_indices = pareto_frontier(&results); }
recomputes_frontier(refined_count) == refined_count > 0

TunerOutcomes ==
    {EvaluationResult(0, 0, 0, 0), EvaluationResult(1, 0, 0, 0),
     EvaluationResult(0, 0, 1, 0), EvaluationResult(1, 0, 1, 0),
     EvaluationResult(1, 0, 1, 1)}

\* what a call of evaluate_knobs can return in this run
evaluate_knobs_outcomes(empty_budgets) ==
    IF empty_budgets THEN {EvaluationResult(NaN, NaN, NaN, NaN)} ELSE TunerOutcomes

\* run_tuner(foods, config): entry
RunTuner ==
    /\ rt.phase = "none"
    /\ \E n \in 0..MaxIterations, e \in BOOLEAN, h \in BOOLEAN :
          rt' = [NoRun EXCEPT !.phase = "search", !.iterations = n,
                              !.empty_budgets = e, !.hill_climb = h]
    /\ results' = <<>>
    /\ frontier' = <<>>
    /\ UNCHANGED <<earlier, hc, foods, order, cravings, config, pc, budget, remaining, iter, plan,
                   stop, foods0, last, tfoods, torder, tknobs>>

\* one iteration of the search loop: a random bundle is evaluated and pushed
SearchStep ==
    /\ rt.phase = "search"
    /\ Len(results) < rt.iterations
    /\ \E result \in evaluate_knobs_outcomes(rt.empty_budgets) :
          results' = Append(results, result)
    /\ UNCHANGED <<earlier, rt, hc, foods, order, cravings, config, pc, budget, remaining, iter,
                   plan, stop, foods0, last, tfoods, torder, tknobs, frontier>>

\* after the loop: sort, compute the frontier, and enter the refinement
SearchEnd ==
    /\ rt.phase = "search"
    /\ Len(results) = rt.iterations
    /\ results' = sort_results(results)
    /\ frontier' = pareto_frontier(results')
    /\ rt' = [rt EXCEPT !.phase = IF rt.hill_climb THEN "refine" ELSE "balance",
                        !.indices = frontier', !.pos = 1]
    /\ UNCHANGED <<earlier, hc, foods, order, cravings, config, pc, budget, remaining, iter, plan,
                   stop, foods0, last, tfoods, torder, tknobs>>

\* for &idx in &pareto_indices.clone(): hill_climb, push when it dominates
RefineStep ==
    /\ rt.phase = "refine"
    /\ rt.pos <= Len(rt.indices)
    /\ LET original == results[rt.indices[rt.pos] + 1]
       IN  \E refined \in {original} \cup evaluate_knobs_outcomes(rt.empty_budgets) :
              IF is_dominated_by(original, refined)
              THEN /\ results' = Append(results, refined)
                   /\ rt' = [rt EXCEPT !.pos = @ + 1, !.refined_count = @ + 1]
              ELSE /\ results' = results
                   /\ rt' = [rt EXCEPT !.pos = @ + 1]
    /\ UNCHANGED <<earlier, hc, foods, order, cravings, config, pc, budget, remaining, iter, plan,
                   stop, foods0, last, tfoods, torder, tknobs, frontier>>

\* after the refinement: re-sort and recompute the frontier if anything was pushed
RefineEnd ==
    /\ rt.phase = "refine"
    /\ rt.pos > Len(rt.indices)
    /\ results' = IF needs_resort(rt.refined_count) THEN sort_results(results)
                  ELSE results
    /\ frontier' = IF recomputes_frontier(rt.refined_count) THEN pareto_frontier(results')
                   ELSE frontier
    /\ rt' = [rt EXCEPT !.phase = "balance"]
    /\ UNCHANGED <<earlier, hc, foods, order, cravings, config, pc, budget, remaining, iter, plan,
                   stop, foods0, last, tfoods, torder, tknobs>>

\* select_balanced and the return of TunerResults
RunTunerReturn ==
    /\ rt.phase = "balance"
    /\ rt' = [rt EXCEPT !.phase = "returned",
                        !.balanced_idx = select_balanced(results, frontier)]
    /\ UNCHANGED <<earlier, hc, foods, order, cravings, config, pc, budget, remaining, iter, plan,
                   stop, foods0, last, tfoods, torder, tknobs, results, frontier>>

NextTuner ==
    \/ RunTuner
    \/ SearchStep
    \/ SearchEnd
    \/ RefineStep
    \/ RefineEnd
    \/ RunTunerReturn

TunerSpec == InitPareto /\ [][NextTuner]_vars

-----------------------------------------------------------------------------
(* tuner/evaluation.rs: hill_climb.  The locals are hc.best (the knobs and   *)
(* their evaluation), the position of the three nested loops, and improved;  *)
(* hc.prev records the last perturbation the loops came to, hc.accepted how  *)
(* many perturbations were accepted, hc.initial the argument.                *)

NUM_KNOBS == 8
MaxHillIterations == 2     \* config.max_iterations is 0..MaxHillIterations

KnobRanges_default ==
    [soft_bias_gamma |-> <<0, 6000>>, tie_alpha |-> <<0, 1000>>,
     tie_beta |-> <<0, 200>>, tie_epsilon |-> <<100, 1000>>,
     cal_floor |-> <<200, 500>>, cal_penalty_gamma |-> <<0, 4000>>,
     balance_bias_gamma |-> <<0, 3000>>, repetition_penalty_gamma |-> <<0, 2000>>]

\* HillClimbConfig::default().factors
HillClimbFactors == <<900, 950, 1050, 1100>>

\* the knob of each index, as perturb's match has them (element i + 1 is index i)
KnobOfIndex ==
    <<"soft_bias_gamma", "tie_alpha", "tie_beta", "tie_epsilon", "cal_floor",
      "cal_penalty_gamma", "balance_bias_gamma", "repetition_penalty_gamma">>

\* variant: the product is not clamped
perturb_without_clamp(self, knob_idx, factor, ranges) ==
    IF knob_idx \notin 0..7 THEN self
    ELSE LET name == KnobOfIndex[knob_idx + 1]
         IN  [self EXCEPT ![name] = FMul(self[name], factor)]

\* self.perturb(knob_idx, factor, ranges)
perturb(self, knob_idx, factor, ranges) ==
    IF knob_idx \notin 0..7 THEN self
    ELSE LET name == KnobOfIndex[knob_idx + 1]
         IN  [self EXCEPT ![name] =
                 Max2(ranges[name][1], Min2(ranges[name][2], FMul(self[name], factor)))]

\* knobs_equal: every knob within 1e-9, which is below what the fixed point
\* distinguishes
knobs_equal(a, b) == \A k \in DOMAIN KnobOfIndex : a[KnobOfIndex[k]] = b[KnobOfIndex[k]]

\* variant: the knob loop starts over after an acceptance
knob_after_acceptance_restarts(knob_idx) == 0

\* `break` out of the factor loop: the knob loop goes on with the next index
knob_after_acceptance(knob_idx) == knob_idx + 1

\* the result hill_climb starts from, and what evaluate_knobs returns for the
\* bundles it tries
HillInitials ==
    {[knobs |-> k, result |-> EvaluationResult(0, 0, 0, 0)] :
        k \in {TunerKnobs_default,
               [TunerKnobs_default EXCEPT !.tie_alpha = 1000, !.balance_bias_gamma = 1914]}}

HillOutcomes ==
    {EvaluationResult(0, 0, 0, 0), EvaluationResult(1, 0, 0, 0),
     EvaluationResult(1, 0, 1, 0)}

\* hill_climb(initial, foods, budgets, ranges, config): entry
HillClimb ==
    /\ hc.phase = "none"
    /\ \E initial \in HillInitials, m \in 0..MaxHillIterations :
          hc' = [phase |-> IF m = 0 THEN "returned" ELSE "sweep",
                 initial |-> initial, best |-> initial, max_iterations |-> m,
                 iteration |-> 0,
                 knob_idx |-> 0, factor_idx |-> 1, improved |-> FALSE,
                 accepted |-> 0, prev |-> [outcome |-> "none"]]
    /\ UNCHANGED <<earlier, rt, foods, order, cravings, config, pc, budget, remaining, iter, plan,
                   stop, foods0, last, tfoods, torder, tknobs, results, frontier>>

\* the body of the factor loop for (knob_idx, factor)
HillTry ==
    /\ hc.phase = "sweep"
    /\ hc.knob_idx < NUM_KNOBS
    /\ hc.factor_idx <= Len(HillClimbFactors)
    /\ LET candidate_knobs == perturb(hc.best.knobs, hc.knob_idx,
                                      HillClimbFactors[hc.factor_idx], KnobRanges_default)
           at == [iteration |-> hc.iteration, knob_idx |-> hc.knob_idx,
                  factor_idx |-> hc.factor_idx, best |-> hc.best]
       IN  IF knobs_equal(candidate_knobs, hc.best.knobs)
           THEN hc' = [hc EXCEPT !.factor_idx = @ + 1,
                                 !.prev = [outcome |-> "skipped", at |-> at]]
           ELSE \E result \in HillOutcomes :
                   LET candidate == [knobs |-> candidate_knobs, result |-> result]
                   IN  IF is_dominated_by(hc.best.result, candidate.result)
                       THEN hc' = [hc EXCEPT
                                      !.best = candidate, !.improved = TRUE,
                                      !.accepted = @ + 1,
                                      !.knob_idx = knob_after_acceptance(@),
                                      !.factor_idx = 1,
                                      !.prev = [outcome |-> "accepted", at |-> at,
                                                candidate |-> candidate]]
                       ELSE hc' = [hc EXCEPT
                                      !.factor_idx = @ + 1,
                                      !.prev = [outcome |-> "rejected", at |-> at,
                                                candidate |-> candidate]]
    /\ UNCHANGED <<earlier, rt, foods, order, cravings, config, pc, budget, remaining, iter, plan,
                   stop, foods0, last, tfoods, torder, tknobs, results, frontier>>

\* the factor loop of a knob is through: the next knob
HillNextKnob ==
    /\ hc.phase = "sweep"
    /\ hc.knob_idx < NUM_KNOBS
    /\ hc.factor_idx > Len(HillClimbFactors)
    /\ hc' = [hc EXCEPT !.knob_idx = @ + 1, !.factor_idx = 1]
    /\ UNCHANGED <<earlier, rt, foods, order, cravings, config, pc, budget, remaining, iter, plan,
                   stop, foods0, last, tfoods, torder, tknobs, results, frontier>>

\* variant: only `if !improved { break; }` ends the outer loop
hill_climb_returns_without_cap(improved, iteration, max_iterations) == ~improved

\* the outer loop ends after the pass `iteration`: `if !improved { break; }`,
\* or the range 0..config.max_iterations is exhausted
hill_climb_returns(improved, iteration, max_iterations) ==
    ~improved \/ iteration + 1 >= max_iterations

\* the knob loop is through: return when nothing improved or at the iteration
\* cap, else the next iteration
HillPassEnd ==
    /\ hc.phase = "sweep"
    /\ hc.knob_idx >= NUM_KNOBS
    /\ IF hill_climb_returns(hc.improved, hc.iteration, hc.max_iterations)
       THEN hc' = [hc EXCEPT !.phase = "returned"]
       ELSE hc' = [hc EXCEPT !.iteration = @ + 1, !.knob_idx = 0, !.factor_idx = 1,
                             !.improved = FALSE]
    /\ UNCHANGED <<earlier, rt, foods, order, cravings, config, pc, budget, remaining, iter, plan,
                   stop, foods0, last, tfoods, torder, tknobs, results, frontier>>

NextHill ==
    \/ HillClimb
    \/ HillTry
    \/ HillNextKnob
    \/ HillPassEnd

HillSpec == InitPareto /\ [][NextHill]_vars

\* hill_climb is straight-line code that nothing suspends: while it is in its
\* loops, the next step of the loops is eventually taken
HillLoopStep ==
    \/ HillTry
    \/ HillNextKnob
    \/ HillPassEnd

HillFairSpec == HillSpec /\ WF_vars(HillLoopStep)

-----------------------------------------------------------------------------
(* tuner/evaluation.rs: evaluate_budget called twice with the same catalog,  *)
(* budget and knobs, as two runs of run_tuner with the same seed do.  Each   *)
(* call builds its own HashMap, whose iteration order is its own.            *)

\* two items of equal cost and taste whose attributes are each other's with
\* the first two exchanged, and a third item that costs more
Oats ==
    [name |-> <<"O", "a", "t", "s">>, calories |-> 500, carbs |-> 30000,
     protein |-> 5000, fats |-> 5000, vitamins |-> 5000, tastiness |-> 1]

Beans ==
    [Oats EXCEPT !.name = <<"B", "e", "a", "n", "s">>, !.carbs = 5000, !.protein = 30000]

\* the catalogs, their items carrying the counters 0/1, 1/2 and 2/3
RepeatFoodLists ==
    {[i \in 1..3 |-> WithState(fixture[i], i - 1, i)] :
        fixture \in {<<Oats, Beans, [Cheese EXCEPT !.calories = 600]>>,
                     <<Apple, Bread, Cheese>>, <<Apple, Pear, Water>>}}

RepeatBudgets == {1000, 1500, 100000}

InitRepeat ==
    /\ pc = "tuner"
    /\ \E list \in RepeatFoodLists :
          /\ foods = FoodStateManager_new(list)
          /\ order \in Orders(list)
    /\ cravings = <<>>
    /\ config = SpConfigDefault
    /\ budget = 0
    /\ remaining = 0
    /\ iter = 0
    /\ plan = <<>>
    /\ stop = "none"
    /\ foods0 = foods
    /\ last = NoCall
    /\ tfoods = foods
    /\ torder = order
    /\ tknobs = TunerKnobs_default
    /\ results = <<>>
    /\ frontier = <<>>
    /\ rt = NoRun
    /\ hc = NoClimb
    /\ earlier = NoCall

\* evaluate_budget(foods, budget, knobs): the first call
EvaluateBudgetFirst ==
    /\ pc = "tuner"
    /\ last = NoCall
    /\ \E budget_ \in RepeatBudgets :
          /\ budget' = budget_
          /\ remaining' = budget_
    /\ tknobs' \in KnobBundles
    /\ tfoods' = FoodStateManager_new(test_foods_of(to_foods(foods, order)))
    /\ torder' \in {order, Reverse(order)}
    /\ iter' = 0
    /\ pc' = "eval"
    /\ UNCHANGED <<earlier, last, rt, hc, foods, order, cravings, config, plan, stop,
                   foods0, results, frontier>>

\* evaluate_budget(foods, budget, knobs): a later call with the same arguments
EvaluateBudgetAgain ==
    /\ pc = "tuner"
    /\ last.op = "evaluate_budget"
    /\ earlier = NoCall
    /\ earlier' = last
    /\ last' = NoCall
    /\ remaining' = budget
    /\ tfoods' = FoodStateManager_new(test_foods_of(to_foods(foods, order)))
    /\ torder' \in {order, Reverse(order)}
    /\ iter' = 0
    /\ pc' = "eval"
    /\ UNCHANGED <<rt, hc, foods, order, cravings, config, budget, plan, stop, foods0,
                   tknobs, results, frontier>>

NextRepeat ==
    \/ EvaluateBudgetFirst
    \/ EvaluateBudgetAgain
    \/ EvalLoopEnd
    \/ EvalSelect

RepeatSpec == InitRepeat /\ [][NextRepeat]_vars

-----------------------------------------------------------------------------
(* planner/calculations.rs: the multipliers called on their own *)

\* the values of an attribute average: absent, the least amount, and two
\* amounts that differ by the least amount
DensityValues == {0, 1, 9999, 10000}

\* calculate_balance_mult(&density)
CallCalculateBalanceMult ==
    /\ \E c, p, f, v \in DensityValues :
          LET density == [carbs |-> c, protein |-> p, fats |-> f, vitamins |-> v]
          IN  last' = [op |-> "calculate_balance_mult", args |-> <<density>>,
                       out |-> <<calculate_balance_mult(density)>>]
    /\ UNCHANGED <<earlier, rt, hc, foods, order, cravings, config, pc, budget, remaining,
                   iter, plan, stop, foods0, tfoods, torder, tknobs, results, frontier>>

MaxVarietyCount == 420     \* variety_count is 0..MaxVarietyCount

\* calculate_variety_mult(variety_count)
CallCalculateVarietyMult ==
    /\ \E variety_count \in 0..MaxVarietyCount :
          last' = [op |-> "calculate_variety_mult", args |-> <<variety_count>>,
                   out |-> <<calculate_variety_mult(variety_count)>>]
    /\ UNCHANGED <<earlier, rt, hc, foods, order, cravings, config, pc, budget, remaining,
                   iter, plan, stop, foods0, tfoods, torder, tknobs, results, frontier>>

NextCalc ==
    \/ CallCalculateBalanceMult
    \/ CallCalculateVarietyMult

CalcSpec == InitPareto /\ [][NextCalc]_vars

-----------------------------------------------------------------------------
(* state/manager.rs: consume_food called by a user of the manager *)

\* names to consume: items of the catalogs in several spellings, and a name
\* no catalog has
ConsumeNames ==
    {<<"a", "p", "p", "l", "e">>, <<"A", "P", "P", "L", "E">>, <<"B", "r", "e", "a", "d">>,
     <<"c", "H", "E", "E", "S", "E">>, <<"P", "e", "a", "r">>, <<"K", "i", "w", "i">>}

InitConsume ==
    /\ Init
    /\ pc = "idle"
    /\ cravings = <<>>
    /\ config = SpConfigDefault
    /\ \A k \in DOMAIN foods : foods[k].available <= MaxAvail

\* manager.consume_food(name); foods0 keeps the catalog as it was before
CallConsumeFood ==
    /\ \E name \in ConsumeNames :
          \E result \in {consume_food(foods, name)} :
             /\ foods' = result.foods
             /\ last' = [op |-> "consume_food", args |-> <<name>>,
                         out |-> <<result.ok, result.err>>]
    /\ foods0' = foods
    /\ UNCHANGED <<earlier, rt, hc, order, cravings, config, pc, budget, remaining, iter,
                   plan, stop, tfoods, torder, tknobs, results, frontier>>

NextConsume ==
    \/ CallConsumeFood

ConsumeSpec == InitConsume /\ [][NextConsume]_vars

-----------------------------------------------------------------------------
(* tuner/knobs.rs: TunerKnobs::perturb called on its own *)

MaxKnobIdx == 9      \* knob_idx is 0..MaxKnobIdx; 8 and above name no knob

\* the bundles of the two tests of perturb, and the default bundle
PerturbKnobs ==
    {TunerKnobs_default,
     [soft_bias_gamma |-> 2000, tie_alpha |-> 500, tie_beta |-> 100, tie_epsilon |-> 500,
      cal_floor |-> 350, cal_penalty_gamma |-> 2000, balance_bias_gamma |-> 1000,
      repetition_penalty_gamma |-> 1000],
     [soft_bias_gamma |-> 5500, tie_alpha |-> 50, tie_beta |-> 100, tie_epsilon |-> 500,
      cal_floor |-> 350, cal_penalty_gamma |-> 2000, balance_bias_gamma |-> 1000,
      repetition_penalty_gamma |-> 1000]}

\* the factors of hill_climb and of the tests
PerturbFactors == {500, 900, 950, 1050, 1100, 1200}

\* knobs.perturb(knob_idx, factor, &ranges)
CallPerturb ==
    /\ pc = "pareto"
    /\ \E self \in PerturbKnobs, knob_idx \in 0..MaxKnobIdx, factor \in PerturbFactors :
          last' = [op |-> "perturb", args |-> <<self, knob_idx, factor>>,
                   out |-> <<perturb(self, knob_idx, factor, KnobRanges_default)>>]
    /\ UNCHANGED <<earlier, rt, hc, foods, order, cravings, config, pc, budget, remaining, iter,
                   plan, stop, foods0, tfoods, torder, tknobs, results, frontier>>

NextPerturb ==
    \/ CallPerturb

PerturbSpec == InitPareto /\ [][NextPerturb]_vars

-----------------------------------------------------------------------------
(* The two planners on one catalog: generate_plan with no preferences, then  *)
(* generate_plan_with_knobs with the default knobs on the catalog and budget *)
(* generate_plan was called with, enumerated in the same order.              *)

InitEquiv ==
    /\ Init
    /\ pc = "idle"
    /\ cravings = <<>>

\* generate_plan_with_knobs(&mut manager, remaining_calories,
\* &TunerKnobs::default()): entry; the locals are remaining and bites (iter)
CallGeneratePlanWithKnobs ==
    /\ pc = "done"
    /\ tknobs' = TunerKnobs_default
    /\ tfoods' = foods0
    /\ torder' = order
    /\ remaining' = budget
    /\ iter' = 0
    /\ pc' = "eval"
    /\ UNCHANGED <<earlier, rt, hc, foods, order, cravings, config, budget, plan, stop,
                   foods0, last, results, frontier>>

NextEquiv ==
    \/ GeneratePlan
    \/ PlanLoopEnd
    \/ PlanBreakBudget
    \/ PlanBreakNoFood
    \/ PlanSelect
    \/ CallGeneratePlanWithKnobs
    \/ EvalLoopEnd
    \/ EvalSelect

EquivSpec == InitEquiv /\ [][NextEquiv]_vars

-----------------------------------------------------------------------------
(* Properties *)

SumCalories(p) == SumSeq([i \in DOMAIN p |-> p[i].calories])

HasSupply(fs) == \E k \in DOMAIN fs : fs[k].available > 0

TotalAvailable(fs) ==
    LET ks == SetToSeq(DOMAIN fs) IN SumSeq([i \in DOMAIN ks |-> fs[ks[i]].available])

TotalStomach(fs) ==
    LET ks == SetToSeq(DOMAIN fs) IN SumSeq([i \in DOMAIN ks |-> fs[ks[i]].stomach])

\* the catalog after the first n steps of the plan, replayed from the catalog
\* generate_plan was called on
FoodsAfterSteps(n) ==
    LET after[i \in 0..n] ==
            IF i = 0 THEN foods0
            ELSE consume_food(after[i - 1], plan[i].food_name).foods
    IN  after[n]

\* the keys of the items with supply that a preference names, letter case aside
CravingMatches(fs) ==
    {k \in DOMAIN fs :
        /\ fs[k].available > 0
        /\ \E i \in DOMAIN cravings : to_lowercase(cravings[i]) = to_lowercase(fs[k].name)}

\* C1 (as stated): for every budget, the plan generate_plan returns, and the
\* run evaluate_budget makes, costs at most the budget in total, or has exactly
\* one step.
C1_BudgetOrSingleStep ==
    /\ pc = "done" => (SumCalories(plan) <= budget \/ Len(plan) = 1)
    /\ last.op = "evaluate_budget" =>
          (last.out[1].total_calories <= last.out[1].budget \/ last.out[1].bites = 1)

\* C1 (amended): for every budget >= 0 the plan of generate_plan, and the run
\* of evaluate_budget, costs at most the budget in total or has exactly one
\* step; for a budget < 0 there is no step, and the total cost is 0.
C1_BudgetOrSingleStepNonNegative ==
    /\ pc = "done" =>
          IF budget >= 0 THEN SumCalories(plan) <= budget \/ Len(plan) = 1
          ELSE plan = <<>>
    /\ last.op = "evaluate_budget" =>
          IF last.out[1].budget >= 0
          THEN last.out[1].total_calories <= last.out[1].budget \/ last.out[1].bites = 1
          ELSE last.out[1].bites = 0 /\ last.out[1].total_calories = 0

C1_Witness ==
    /\ pc = "done"
    /\ stop = "exceeds"
    /\ Len(plan) >= 2
    /\ SumCalories(plan) <= budget

\* C2: with a positive budget below the cost of every item and some item in
\* supply, generate_plan returns exactly one step, whose cost exceeds the budget.
C2_FirstBiteException ==
    ( /\ pc = "done"
      /\ budget > 0
      /\ HasSupply(foods0)
      /\ \A k \in DOMAIN foods0 : foods0[k].calories > budget )
    => (Len(plan) = 1 /\ plan[1].calories > budget)

C2_Witness ==
    /\ pc = "done"
    /\ budget > 0
    /\ HasSupply(foods0)
    /\ \A k \in DOMAIN foods0 : foods0[k].calories > budget
    /\ Len(plan) = 1
    /\ stop = "budget"

\* C3: generate_plan returns no step and leaves every available and stomach
\* counter as it was when the budget is <= 0 or no item has supply; with a
\* positive budget and some item in supply it returns at least one step.
C3_EmptyPlanCases ==
    pc = "done" =>
        /\ (budget <= 0 \/ ~HasSupply(foods0)) => (plan = <<>> /\ foods = foods0)
        /\ (budget > 0 /\ HasSupply(foods0)) => plan # <<>>

C3_Witness ==
    /\ pc = "done"
    /\ budget <= 0
    /\ HasSupply(foods0)
    /\ plan = <<>>
    /\ foods = foods0

\* C4: generate_plan terminates on every input, and its plan never has more
\* than MAX_ITERATIONS steps.
C4_TerminatesWithinCap ==
    /\ [](Len(plan) <= MAX_ITERATIONS)
    /\ (pc = "plan") ~> (pc = "done")

C4_Witness ==
    /\ pc = "done"
    /\ stop = "cap"
    /\ Len(plan) = MAX_ITERATIONS
    /\ remaining > 0
    /\ HasSupply(foods)

\* C5: every step of the plan is one successful consume_food of the step's
\* item: after n steps the total availability is down by n, the total stomach
\* count is up by n, and each item's available + stomach is what it was.
C5_StepIsOneConsume ==
    pc \in {"plan", "done"} =>
        /\ DOMAIN foods = DOMAIN foods0
        /\ TotalAvailable(foods) = TotalAvailable(foods0) - Len(plan)
        /\ TotalStomach(foods) = TotalStomach(foods0) + Len(plan)
        /\ \A k \in DOMAIN foods :
              foods[k].available + foods[k].stomach
                 = foods0[k].available + foods0[k].stomach
        /\ plan # <<>> =>
              LET r == consume_food(FoodsAfterSteps(Len(plan) - 1),
                                    plan[Len(plan)].food_name)
              IN  r.ok /\ r.foods = foods

C5_Witness ==
    /\ pc = "done"
    /\ Len(plan) >= 3
    /\ \E k \in DOMAIN foods : foods[k].stomach >= foods0[k].stomach + 2

\* C6: choose_next_bite returns an item of the catalog with available > 0 when
\* there is one, and none exactly when no item has supply.
C6_ChoosesAvailable ==
    last.op = "choose_next_bite" =>
        /\ (last.out = None) <=> ~HasSupply(foods)
        /\ last.out # None =>
              \E k \in DOMAIN foods : foods[k] = last.out[1] /\ foods[k].available > 0

C6_Witness ==
    /\ last.op = "choose_next_bite"
    /\ last.out # None
    /\ \E k \in DOMAIN foods : foods[k].available = 0

\* C7: when an item in supply matches a preference (letter case aside), the
\* step taken is a matching item of the highest marginal value among the
\* matches in supply and is marked is_craving; otherwise the step is the
\* ranker's pick.
C7_CravingFirst ==
    (pc \in {"plan", "done"} /\ plan # <<>>) =>
        LET pre     == FoodsAfterSteps(Len(plan) - 1)
            step    == plan[Len(plan)]
            chosen  == to_lowercase(step.food_name)
            matches == CravingMatches(pre)
            stomach == stomach_food_map(pre)
        IN  IF matches # {}
            THEN /\ step.is_craving
                 /\ chosen \in matches
                 /\ \A k \in matches :
                       get_sp_delta(stomach, pre[k], cravings, config)
                          <= get_sp_delta(stomach, pre[chosen], cravings, config)
            ELSE /\ ~step.is_craving
                 /\ choose_next_bite(pre, order, cravings, config) = Some(pre[chosen])

\* the first step is the preferred Bread, named "BREAD" in the list, where the
\* ranker's own pick on the same catalog is another item
C7_Witness ==
    /\ pc = "done"
    /\ Len(plan) >= 1
    /\ plan[1].is_craving
    /\ plan[1].food_name = Bread.name
    /\ \E i \in DOMAIN cravings : cravings[i] = <<"B","R","E","A","D">>
    /\ choose_next_bite(foods0, order, cravings, config) # None
    /\ choose_next_bite(foods0, order, cravings, config)[1].name # Bread.name

\* C8: the count of preferences satisfied before the run adds to the score:
\* raising the count by one raises the score of the same selection.
C8_SatisfiedCountRaisesScore ==
    last.op = "get_current_sp" =>
        get_current_sp(foods, cravings, last.args[1] + 1) > last.out[1]

Dominates(other, self) ==
    /\ f64_ge(other.avg_final_sp, self.avg_final_sp)
    /\ f64_ge(other.avg_delta_sp_per_100kcal, self.avg_delta_sp_per_100kcal)
    /\ f64_ge(other.avg_variety_count, self.avg_variety_count)
    /\ f64_ge(other.avg_balance_ratio, self.avg_balance_ratio)
    /\ \/ f64_gt(other.avg_final_sp, self.avg_final_sp)
       \/ f64_gt(other.avg_delta_sp_per_100kcal, self.avg_delta_sp_per_100kcal)
       \/ f64_gt(other.avg_variety_count, self.avg_variety_count)
       \/ f64_gt(other.avg_balance_ratio, self.avg_balance_ratio)

\* C10: pareto_frontier returns each index of a result no result of the list
\* dominates, once, and no other index.
C10_FrontierIsNonDominated ==
    pc = "pareto_done" =>
        /\ \A i \in 0..(Len(results) - 1) :
              (\E n \in DOMAIN frontier : frontier[n] = i)
                 <=> ~ \E j \in DOMAIN results : Dominates(results[j], results[i + 1])
        /\ \A n \in DOMAIN frontier : frontier[n] \in 0..(Len(results) - 1)
        /\ \A m, n \in DOMAIN frontier : m # n => frontier[m] # frontier[n]

C10_Witness ==
    /\ pc = "pareto_done"
    /\ Len(results) = MaxResults
    /\ Len(frontier) = 2
    /\ \E i \in DOMAIN results : results[i].avg_final_sp = NaN
    /\ \E i, j \in DOMAIN results : Dominates(results[j], results[i])

\* the metrics of the listed results, normalized as the statement says it:
\* 1 when the smallest and the largest value differ by less than tol
DistanceSqTol(results_, indices, idx, tol) ==
    LET listed == {results_[indices[n] + 1] : n \in DOMAIN indices}
        Norm(value, values) ==
            LET lo == CHOOSE v \in values : \A w \in values : v <= w
                hi == CHOOSE v \in values : \A w \in values : w <= v
            IN  IF hi - lo < tol THEN NORM_SCALE
                ELSE ((value - lo) * NORM_SCALE) \div (hi - lo)
        Gap(value, values) ==
            (NORM_SCALE - Norm(value, values)) * (NORM_SCALE - Norm(value, values))
        r == results_[idx + 1]
    IN  Gap(r.avg_final_sp, {x.avg_final_sp : x \in listed})
        + Gap(r.avg_variety_count, {x.avg_variety_count : x \in listed})
        + Gap(r.avg_balance_ratio, {x.avg_balance_ratio : x \in listed})
        + Gap(r.avg_delta_sp_per_100kcal, {x.avg_delta_sp_per_100kcal : x \in listed})

\* the outcome of a select_balanced call is the earliest listed index of the
\* smallest distance, for the tolerance tol of the normalization
BalancedIsEarliestNearest(tol) ==
    last.op = "select_balanced" =>
        LET indices == last.args[1]
        IN  /\ (last.out = None) <=> (indices = <<>>)
            /\ last.out # None =>
                  \E n \in DOMAIN indices :
                     /\ last.out = Some(indices[n])
                     /\ \A m \in DOMAIN indices :
                           DistanceSqTol(results, indices, indices[n], tol)
                               <= DistanceSqTol(results, indices, indices[m], tol)
                     /\ \A m \in 1..(n - 1) :
                           DistanceSqTol(results, indices, indices[n], tol)
                               < DistanceSqTol(results, indices, indices[m], tol)

\* C11 as stated: select_balanced returns none exactly for an empty index
\* list, and otherwise the earliest listed index of minimum distance to
\* (1,1,1,1), a metric being normalized to 1 for all listed results only when
\* its smallest and largest value are equal
C11_BalancedExactEquality == BalancedIsEarliestNearest(1)

\* C11, amended: the same, a metric being normalized to 1 for all listed
\* results when its smallest and largest value differ by less than 1e-10
C11_BalancedWithinTolerance == BalancedIsEarliestNearest(NORMALIZE_EPS)

\* two listed results at the same distance, the later of them listed first
\* and returned
C11_Witness ==
    /\ last.op = "select_balanced"
    /\ Len(last.args[1]) >= 2
    /\ last.out = Some(last.args[1][1])
    /\ last.args[1][1] > last.args[1][2]
    /\ results[last.args[1][1] + 1] # results[last.args[1][2] + 1]
    /\ balanced_distance_sq(results, last.args[1], last.args[1][1])
           = balanced_distance_sq(results, last.args[1], last.args[1][2])

\* a is not below b in the lexicographic order of (score, efficiency, variety
\* count, balance ratio); a NaN compares equal to everything
LexGreaterOrEqual(a, b) ==
    LET ka == <<a.avg_final_sp, a.avg_delta_sp_per_100kcal,
                a.avg_variety_count, a.avg_balance_ratio>>
        kb == <<b.avg_final_sp, b.avg_delta_sp_per_100kcal,
                b.avg_variety_count, b.avg_balance_ratio>>
        Differ(k) == ka[k] # NaN /\ kb[k] # NaN /\ ka[k] # kb[k]
    IN  \/ \A k \in 1..4 : ~Differ(k)
        \/ \E k \in 1..4 : /\ Differ(k)
                           /\ ka[k] > kb[k]
                           /\ \A j \in 1..(k - 1) : ~Differ(j)

\* C12: in the results run_tuner returns, every result compares greater than
\* or equal to the next one under the lexicographic comparator, also when
\* hill climbing has appended refined results
C12_ReturnedResultsSortedDescending ==
    rt.phase = "returned" =>
        \A i \in 1..(Len(results) - 1) : LexGreaterOrEqual(results[i], results[i + 1])

\* a run whose hill climbing appended a result that does not compare equal to
\* the result the search had put last
C12_Witness ==
    /\ rt.phase = "returned"
    /\ rt.refined_count > 0
    /\ Len(results) >= 3
    /\ ~LexGreaterOrEqual(results[Len(results)], results[1])

\* hill_climb is about to try the perturbation (hc.knob_idx, hc.factor_idx)
AtTry ==
    /\ hc.phase = "sweep"
    /\ hc.knob_idx < NUM_KNOBS
    /\ hc.factor_idx <= Len(HillClimbFactors)

\* Knobs in index order, factors in list order: a perturbation that was not
\* accepted is followed by the next factor of the same knob, or by the first
\* factor of the next knob, or by the first of the first knob in the next
\* pass.  A perturbation changes its knob only.  A perturbation is accepted,
\* and is the new best, exactly when it is evaluated and its evaluation
\* dominates the best of that moment; one equal to the best is not evaluated.
HillOrderAndAcceptance ==
    hc.phase # "none" /\ hc.prev.outcome # "none" =>
        LET at == hc.prev.at
            last_factor == at.factor_idx = Len(HillClimbFactors)
            last_knob   == at.knob_idx = NUM_KNOBS - 1
        IN  /\ hc.prev.outcome # "accepted" =>
                  /\ hc.best = at.best
                  /\ AtTry =>
                        \/ /\ ~last_factor
                           /\ hc.iteration = at.iteration
                           /\ hc.knob_idx = at.knob_idx
                           /\ hc.factor_idx = at.factor_idx + 1
                        \/ /\ last_factor /\ ~last_knob
                           /\ hc.iteration = at.iteration
                           /\ hc.knob_idx = at.knob_idx + 1
                           /\ hc.factor_idx = 1
                        \/ /\ last_factor /\ last_knob
                           /\ hc.iteration = at.iteration + 1
                           /\ hc.knob_idx = 0
                           /\ hc.factor_idx = 1
            /\ hc.prev.outcome = "skipped" =>
                  LET name    == KnobOfIndex[at.knob_idx + 1]
                      product == (at.best.knobs[name] * HillClimbFactors[at.factor_idx])
                                     \div SCALE
                      lo      == KnobRanges_default[name][1]
                      hi      == KnobRanges_default[name][2]
                  IN  at.best.knobs[name]
                          = (IF product < lo THEN lo ELSE IF product > hi THEN hi
                             ELSE product)
            /\ hc.prev.outcome \in {"accepted", "rejected"} =>
                  /\ \A name \in DOMAIN at.best.knobs :
                        name # KnobOfIndex[at.knob_idx + 1] =>
                           hc.prev.candidate.knobs[name] = at.best.knobs[name]
                  /\ (hc.prev.outcome = "accepted")
                        <=> Dominates(hc.prev.candidate.result, at.best.result)
            /\ hc.prev.outcome = "accepted" => hc.best = hc.prev.candidate

\* C13 as stated: knobs in index order, factors in list order, the first
\* dominating perturbation accepted as the new best, and after an acceptance
\* the next perturbation tried is the first factor of the first knob
C13_AcceptanceRestartsSweep ==
    /\ HillOrderAndAcceptance
    /\ AtTry /\ hc.prev.outcome = "accepted" =>
          hc.knob_idx = 0 /\ hc.factor_idx = 1

\* C13, amended: after an acceptance the next perturbation tried is the first
\* factor of the next knob; the first knob comes again only in the next pass
C13_AcceptanceMovesToNextKnob ==
    /\ HillOrderAndAcceptance
    /\ AtTry /\ hc.prev.outcome = "accepted" =>
          /\ hc.factor_idx = 1
          /\ \/ hc.iteration = hc.prev.at.iteration
                /\ hc.knob_idx = hc.prev.at.knob_idx + 1
             \/ hc.prev.at.knob_idx = NUM_KNOBS - 1
                /\ hc.iteration = hc.prev.at.iteration + 1
                /\ hc.knob_idx = 0

\* in the second pass the second factor of knob 1 was accepted, and knob 2 is next
C13_Witness ==
    /\ AtTry
    /\ hc.prev.outcome = "accepted"
    /\ hc.prev.at.iteration = 1
    /\ hc.prev.at.knob_idx = 1
    /\ hc.prev.at.factor_idx = 2
    /\ hc.knob_idx = 2

\* C14: two runs on the same catalog with the same seed, budgets and ranges
\* give the same results whatever the order in which the catalog is
\* enumerated: the two evaluations of a bundle for a budget, one in each run,
\* return the same BudgetResult (run_tuner's metrics are averages of these)
C14_RepeatedEvaluationIdentical ==
    (pc = "tuner" /\ last.op = "evaluate_budget" /\ earlier.op = "evaluate_budget")
        => last.out = earlier.out

\* the four attribute averages of a density
Averages(d) == {d.carbs, d.protein, d.fats, d.vitamins}

VarietyGap(count) == VARIETY_MULT_MAX - calculate_variety_mult(count)

\* 20 more items halve the gap, up to the rounding of the two multipliers
HalvesGap(count) ==
    LET d == VarietyGap(count) - 2 * VarietyGap(count + 20)
    IN  0 - 2 <= d /\ d <= 2

C17_EvaluationOnFreshCopy ==
    /\ pc \in {"tuner", "eval"} => foods = foods0
    /\ pc = "eval" =>
          /\ DOMAIN tfoods = DOMAIN foods
          /\ TotalStomach(tfoods) = iter
          /\ \A k \in DOMAIN tfoods :
                /\ tfoods[k].stomach + tfoods[k].available = 999
                /\ tfoods[k].available > 0
                /\ [tfoods[k] EXCEPT !.stomach = 0, !.available = 0]
                      = [foods[k] EXCEPT !.stomach = 0, !.available = 0]

\* a second evaluation at the step cap, more than a third of its bites of one
\* item, on a catalog whose items carry other counters
C17_Witness ==
    /\ pc = "eval"
    /\ earlier.op = "evaluate_budget"
    /\ iter = MAX_ITERATIONS
    /\ \E k \in DOMAIN tfoods : 3 * tfoods[k].stomach > MAX_ITERATIONS
    /\ \E k \in DOMAIN foods : foods[k].stomach > 0 /\ foods[k].available < MAX_ITERATIONS

\* the items of the catalog whose name is the given one but for the case of
\* its letters
NamedIgnoringCase(fs, name) ==
    {k \in DOMAIN fs : to_lowercase(fs[k].name) = to_lowercase(name)}

\* C18: consume_food answers an unknown name with the not-found error and an
\* item without availability with an error, and changes nothing then; on
\* success the named item, matched whatever the case of the letters, has one
\* less available and one more selected, and nothing else changes; no
\* availability goes below 0
C18_ConsumeChangesOnlyNamedItem ==
    last.op = "consume_food" =>
        LET named == NamedIgnoringCase(foods0, last.args[1])
        IN  /\ \A k \in DOMAIN foods : foods[k].available >= 0
            /\ DOMAIN foods = DOMAIN foods0
            /\ named = {} => last.out = <<FALSE, "FoodNotFound">> /\ foods = foods0
            /\ \A k \in named :
                  IF foods0[k].available = 0
                  THEN last.out[1] = FALSE /\ last.out[2] # "" /\ foods = foods0
                  ELSE /\ last.out = <<TRUE, "">>
                       /\ foods = [foods0 EXCEPT ![k].available = @ - 1,
                                                 ![k].stomach = @ + 1]

\* the last unit of Apple was consumed under the name APPLE
C18_Witness ==
    /\ last.op = "consume_food"
    /\ last.args[1] = <<"A", "P", "P", "L", "E">>
    /\ last.out[1] = TRUE
    /\ foods[<<"a", "p", "p", "l", "e">>].available = 0
    /\ foods[<<"a", "p", "p", "l", "e">>].name = <<"A", "p", "p", "l", "e">>

-----------------------------------------------------------------------------
(* planner/ranking.rs generate_plan: the budget bookkeeping and the exits *)

\* C19: at every entry of the planning loop, and when the loop has ended, the
\* remaining budget equals the initial budget minus the calories of the steps
\* selected so far, and the number of steps equals the number of iterations
\* that selected a bite.
C19_RemainingIsBudgetMinusCosts ==
    pc \in {"plan", "done"} =>
        /\ remaining = budget - SumCalories(plan)
        /\ Len(plan) = iter

\* the loop is entered again after two bites of different cost were taken
C19_Witness ==
    /\ pc = "plan"
    /\ Len(plan) >= 2
    /\ plan[1].calories # plan[2].calories
    /\ remaining = budget - plan[1].calories - plan[2].calories
    /\ remaining < budget

\* the bite generate_plan would select in the current state costs more than
\* what is left
NextChoiceExceedsRemaining ==
    LET selected == select_next(foods, order, cravings, config)
    IN  /\ selected # None
        /\ selected[1].calories > remaining

\* C20: whenever generate_plan has returned, the budget is used up, or no item
\* has supply left, or the plan is non-empty and the item it would choose next
\* costs more than what remains, or 100 steps were taken; it never returns
\* in any other situation.
C20_ReturnsOnlyOnTerminalCondition ==
    pc = "done" =>
        \/ remaining <= 0
        \/ ~HasSupply(foods)
        \/ Len(plan) > 0 /\ NextChoiceExceedsRemaining
        \/ Len(plan) = MAX_ITERATIONS

\* the planner returned with budget and supply left, below the step cap,
\* because the next bite did not fit after at least one was taken
C20_Witness ==
    /\ pc = "done"
    /\ remaining > 0
    /\ HasSupply(foods)
    /\ Len(plan) > 0
    /\ Len(plan) < MAX_ITERATIONS
    /\ NextChoiceExceedsRemaining

-----------------------------------------------------------------------------
(* planner/ranking.rs: the ranker on catalogs with near-ties.  A catalog is  *)
(* two items of RankPool with 0..MaxRankStomach units already selected; the *)
(* first has supply, the second may have none.                              *)

MaxRankStomach == 4

Oaty == [Oats EXCEPT !.calories = 490, !.name = <<"O","a","t","y">>]
Bun == [Bread EXCEPT !.calories = 400, !.name = <<"B","u","n">>]

RankPool == {Apple, Pear, Bread, Bun, Oats, Oaty, Beans}

RankCravingLists == {<<>>, <<<<"a","p","p","l","e">>, <<"P","E","A","R">>>>}

InitRank ==
    /\ \E a, b \in RankPool : \E sa, sb \in 0..MaxRankStomach : \E avb \in 0..1 :
          /\ a.name # b.name
          /\ foods = FoodStateManager_new(<<WithState(a, sa, 1), WithState(b, sb, avb)>>)
          /\ order = <<key(a), key(b)>>
    /\ pc = "idle"
    /\ cravings \in RankCravingLists
    /\ config = SpConfigDefault
    /\ budget = 0
    /\ remaining = 0
    /\ iter = 0
    /\ plan = <<>>
    /\ stop = "none"
    /\ foods0 = foods
    /\ last = NoCall
    /\ tfoods = foods
    /\ torder = order
    /\ tknobs = TunerKnobs_default
    /\ results = <<>>
    /\ frontier = <<>>
    /\ rt = NoRun
    /\ hc = NoClimb
    /\ earlier = NoCall

\* pick_feasible_craving(&manager, &cravings, &config)
CallPickFeasibleCraving ==
    /\ pc = "idle"
    /\ last' = [op |-> "pick_feasible_craving", args |-> <<>>,
                out |-> pick_feasible_craving(foods, order, cravings, config)]
    /\ UNCHANGED <<earlier, rt, hc, foods, order, cravings, config, pc, budget, remaining, iter,
                   plan, stop, foods0, tfoods, torder, tknobs, results, frontier>>

\* the same call once more on a FoodStateManager built anew from the same
\* catalog: its HashMap may enumerate the items in another order
CallRankerAgain ==
    /\ pc = "idle"
    /\ last.op \in {"choose_next_bite", "pick_feasible_craving"}
    /\ earlier = NoCall
    /\ earlier' = last
    /\ \E ord \in {order, Reverse(order)} :
          /\ order' = ord
          /\ last' = [op |-> last.op, args |-> <<>>,
                      out |-> IF last.op = "choose_next_bite"
                              THEN choose_next_bite(foods, ord, cravings, config)
                              ELSE pick_feasible_craving(foods, ord, cravings, config)]
    /\ UNCHANGED <<rt, hc, foods, cravings, config, pc, budget, remaining, iter,
                   plan, stop, foods0, tfoods, torder, tknobs, results, frontier>>

NextRank ==
    \/ CallChooseNextBite
    \/ CallPickFeasibleCraving
    \/ CallRankerAgain

RankSpec == InitRank /\ [][NextRank]_vars

-----------------------------------------------------------------------------
(* planner/ranking.rs choose_next_bite: what the returned item is *)

\* the Stage-1 records of the catalog the last call of choose_next_bite saw
\* (the call leaves the catalog as it was)
RankedNow == candidates_of(foods, order, cravings, config)

BestRawScore(cs) == SetMax({cs[i].rank_score : i \in DOMAIN cs})

IsFinalist(cs, i) == cs[i].rank_score >= BestRawScore(cs) - TIE_EPSILON

PrimaryOf(c) == c.rank_score + c.soft_variety_bias

\* C21: the item choose_next_bite returns has a raw score of at least the
\* best raw score minus TIE_EPSILON; no finalist has a larger raw score plus
\* soft-variety bias, and no finalist with the same sum has a larger proximity
\* bias.  Nothing is returned only when no item is available.
C21_ReturnsTopFinalist ==
    (pc = "idle" /\ last.op = "choose_next_bite") =>
        LET cs == RankedNow
        IN  IF last.out = None THEN cs = <<>>
            ELSE \E i \in DOMAIN cs :
                    /\ cs[i].food = last.out[1]
                    /\ IsFinalist(cs, i)
                    /\ \A j \in DOMAIN cs :
                          IsFinalist(cs, j) =>
                             /\ PrimaryOf(cs[j]) <= PrimaryOf(cs[i])
                             /\ PrimaryOf(cs[j]) = PrimaryOf(cs[i])
                                   => cs[j].proximity_bias <= cs[i].proximity_bias

\* a call that passed over a candidate more than TIE_EPSILON below the best
\* raw score, although its raw score plus bias is above the returned item's
C21_Witness ==
    /\ pc = "idle"
    /\ last.op = "choose_next_bite"
    /\ last.out # None
    /\ LET cs == RankedNow
       IN  \E i, k \in DOMAIN cs :
              /\ cs[i].food = last.out[1]
              /\ ~IsFinalist(cs, k)
              /\ PrimaryOf(cs[k]) > PrimaryOf(cs[i])

-----------------------------------------------------------------------------
(* planner/ranking.rs: the ranker and the enumeration order of the catalog *)

\* C22: choose_next_bite and pick_feasible_craving return the same item when
\* called again on the same catalog state, selection, preference list and
\* parameters, whatever the order in which the catalog enumerates its items.
C22_RankerIndependentOfOrder ==
    (pc = "idle" /\ earlier.op \in {"choose_next_bite", "pick_feasible_craving"}
                /\ last.op = earlier.op)
        => last.out = earlier.out

-----------------------------------------------------------------------------
(* planner/ranking.rs generate_plan: the scores recorded in the steps *)

\* the score of the selection after the first n steps of the plan
ScoreAfterSteps(n) ==
    calculate_sp(stomach_food_map(FoodsAfterSteps(n)), cravings, config)

-----------------------------------------------------------------------------
(* tuner/evaluation.rs hill_climb: termination *)

\* hill_climb has returned after pass number hc.iteration
HillReturned == hc.phase = "returned"

\* C24: hill_climb always returns.  It returns after the first pass over the
\* knobs that accepted no perturbation or after max_iterations passes,
\* whichever comes first (at once when max_iterations is 0); a further pass is
\* started only after a pass that accepted a perturbation; and when nothing
\* was ever accepted the result returned is the starting result.
C24_HillClimbTerminates ==
    /\ (hc.phase = "sweep") ~> HillReturned
    /\ [](HillReturned =>
            /\ hc.max_iterations = 0 => hc.iteration = 0 /\ hc.best = hc.initial
            /\ hc.max_iterations > 0 =>
                  /\ hc.iteration < hc.max_iterations
                  /\ ~hc.improved \/ hc.iteration + 1 = hc.max_iterations
            /\ (hc.iteration = 0 /\ ~hc.improved) => hc.best = hc.initial)
    /\ [][(hc.phase = "sweep" /\ hc'.phase = "sweep" /\ hc'.iteration # hc.iteration)
             => (hc.improved /\ hc'.iteration = hc.iteration + 1
                 /\ hc'.iteration < hc.max_iterations)]_vars

\* hill_climb returned the starting result after one pass that accepted
\* nothing, with passes to spare
C24_Witness ==
    /\ HillReturned
    /\ hc.max_iterations > 1
    /\ hc.iteration = 0
    /\ ~hc.improved
    /\ hc.best = hc.initial
    /\ hc.knob_idx = NUM_KNOBS

-----------------------------------------------------------------------------
(* tuner/knobs.rs perturb: what changes *)

\* x clamped into [lo, hi]
ClampedInto(x, lo, hi) == IF x < lo THEN lo ELSE IF x > hi THEN hi ELSE x

\* C25: perturb returns a copy in which only the knob of the index differs
\* from the original: it is the original value times the factor, clamped into
\* the knob's range; every other knob is unchanged, and an index that names no
\* knob gives an unchanged copy.
C25_PerturbChangesOneKnob ==
    last.op = "perturb" =>
        LET self     == last.args[1]
            knob_idx == last.args[2]
            factor   == last.args[3]
            new      == last.out[1]
        IN  /\ DOMAIN new = DOMAIN self
            /\ \A k \in 1..NUM_KNOBS :
                  LET name == KnobOfIndex[k]
                  IN  IF k = knob_idx + 1
                      THEN new[name] = ClampedInto(FMul(self[name], factor),
                                                   KnobRanges_default[name][1],
                                                   KnobRanges_default[name][2])
                      ELSE new[name] = self[name]
            /\ knob_idx >= NUM_KNOBS => new = self

\* a perturbation whose product left the range and was clamped to its maximum
C25_Witness ==
    /\ last.op = "perturb"
    /\ last.args[2] = 0
    /\ FMul(last.args[1].soft_bias_gamma, last.args[3]) > KnobRanges_default.soft_bias_gamma[2]
    /\ last.out[1].soft_bias_gamma = KnobRanges_default.soft_bias_gamma[2]
    /\ last.out[1] # last.args[1]

-----------------------------------------------------------------------------
(* tuner/evaluation.rs: dominance against the lexicographic comparator *)

\* C26: of any two results run_tuner holds, one that dominates the other
\* compares Greater than it under cmp_score; once the list is sorted no result
\* is dominated by a later one; and index 0 of a non-empty returned list is in
\* pareto_indices.
C26_DominanceAgreesWithCmpScore ==
    /\ \A i, j \in DOMAIN results :
          is_dominated_by(results[j], results[i])
             => cmp_score(results[i], results[j]) = "Greater"
    /\ rt.phase \in {"balance", "returned"} =>
          /\ \A i, j \in DOMAIN results :
                i < j => ~is_dominated_by(results[i], results[j])
          /\ results # <<>> => \E k \in DOMAIN frontier : frontier[k] = 0

\* a returned list in which the first result dominates a later one, and a
\* result that hill climbing appended was sorted in
C26_Witness ==
    /\ rt.phase = "returned"
    /\ rt.refined_count > 0
    /\ Len(results) >= 3
    /\ \E j \in 2..Len(results) : is_dominated_by(results[j], results[1])
    /\ Len(frontier) >= 2
    /\ frontier[1] = 0

-----------------------------------------------------------------------------
(* tuner/search.rs run_tuner: the indices of the returned TunerResults *)

\* C27: in what run_tuner returns, every element of pareto_indices is an
\* index into the final results list and denotes a result that no result of
\* that list dominates, also after hill climbing appended results and the
\* list was sorted again; balanced_idx is present exactly when results is
\* non-empty, and is then an element of pareto_indices.
C27_ReturnedIndicesValid ==
    rt.phase = "returned" =>
        /\ \A k \in DOMAIN frontier :
              /\ frontier[k] \in 0..(Len(results) - 1)
              /\ \A j \in DOMAIN results :
                    ~is_dominated_by(results[frontier[k] + 1], results[j])
        /\ (rt.balanced_idx # None) <=> (results # <<>>)
        /\ rt.balanced_idx # None =>
              \E k \in DOMAIN frontier : frontier[k] = rt.balanced_idx[1]

\* a run whose hill climbing appended results, so that the indices computed
\* before the refinement are no longer the returned ones, and some result of
\* the final list is dominated
C27_Witness ==
    /\ rt.phase = "returned"
    /\ rt.refined_count > 0
    /\ frontier # rt.indices
    /\ rt.balanced_idx # None
    /\ Len(frontier) >= 2
    /\ Len(frontier) < Len(results)

-----------------------------------------------------------------------------
(* planner/calculations.rs: the variety-qualifying items during generate_plan *)

\* the keys of the items of fs whose selected units add up to the threshold
QualifyingKeys(fs) ==
    {k \in DOMAIN fs : fs[k].stomach > 0
                        /\ fs[k].calories * fs[k].stomach >= VARIETY_CAL_THRESHOLD}

\* C28: over the newest step of the plan every item that qualified for
\* variety before the step still qualifies after it, so the number of
\* qualifying items did not go down; the step's variety_delta is >= 0, and it
\* is > 0 only when the step's item did not qualify before the step and
\* qualifies after it.  Steps are only appended, so this holds of every step.
C28_VarietyNeverDecreases ==
    (pc \in {"plan", "done"} /\ plan # <<>>) =>
        LET n      == Len(plan)
            before == FoodsAfterSteps(n - 1)
            item   == to_lowercase(plan[n].food_name)
        IN  /\ QualifyingKeys(before) \subseteq QualifyingKeys(foods)
            /\ count_variety_qualifying(stomach_food_map(before))
                  <= count_variety_qualifying(stomach_food_map(foods))
            /\ plan[n].variety_delta >= 0
            /\ plan[n].variety_delta > 0 =>
                  /\ item \notin QualifyingKeys(before)
                  /\ item \in QualifyingKeys(foods)

\* a step whose item reached the threshold on that step, after a step that
\* left the number of qualifying items as it was
C28_Witness ==
    /\ pc \in {"plan", "done"}
    /\ Len(plan) >= 2
    /\ plan[Len(plan)].variety_delta > 0
    /\ plan[Len(plan) - 1].variety_delta = 0
    /\ QualifyingKeys(foods) # {}

-----------------------------------------------------------------------------
(* tuner/evaluation.rs hill_climb: what it returns *)

MetricNames ==
    {"avg_final_sp", "avg_delta_sp_per_100kcal", "avg_variety_count", "avg_balance_ratio"}

-----------------------------------------------------------------------------
(* tuner/evaluation.rs: the tuner's planner against generate_plan *)

\* generate_plan_with_knobs is running, or has returned, on the catalog and
\* budget of the generate_plan run recorded in plan
KnobsRun == pc = "eval" \/ (pc = "tuner" /\ last.op = "evaluate_budget")

====